---- MODULE Spec2Model ----
(***************************************************************************)
(* Model of the conversational-memory core of the chatbot:                 *)
(*   - the Branch Store (ChatContext.messages, an IndexMap of Messages),   *)
(*   - the Context Assembler (ChatContext::get_context),                   *)
(*   - the navigation handler Handler::prev and the clear command, each    *)
(*     stepped at its awaits, with the ready and shutdown handlers,        *)
(*   - the long-term-memory list of SystemPromptBuilder.                   *)
(* Messages<T> lives in the branch_context crate and the next/regenerate   *)
(* handlers live outside these sources; those are modelled from the        *)
(* specification of the system (sections 3 and 4.1).                       *)
(***************************************************************************)
EXTENDS Integers, Sequences, FiniteSets, TLC

VARIABLES
    messages,       \* ChatContext.messages : IndexMap<u64, Messages<ChatMessage>>, in insertion order
    system_prompt,  \* ChatContext.system_prompt : SystemPromptBuilder (max_stm, max_ltm, long_term_memory)
    clock,          \* number of ChatMessages / facts created so far (gives each a distinct content)
    aborted,        \* TRUE once a call has panicked (the task is gone)
    last,           \* observation of the last Branch Store operation: its arguments and what it returned
    regen,          \* observation of the current streak of regenerations on one Slot
    scenario,       \* observation of the reply / regenerate / prev / next / next scenario
    lastLtm,        \* observation of the last long-term-memory operation
    user_map,       \* Data.user_map : the Session Registry, user -> engine (session) or absent
    freewill_map,   \* Data.freewill_map : user -> handle of the proactive-nudge task, 0 for none
    handles,        \* nudge task handles: how many were spawned, which were aborted
    config,         \* Data.config (in memory) and the configuration file it is re-read from
    platform,       \* Data.context (None before ready), the presence, a ready handler waiting for context
    locks,          \* who holds user_map, the engines' locks, freewill_map, context and config
    tasks,          \* the handler tasks: kind, user, position in the handler, config snapshots
    shutdown,       \* the shutdown task's progress: engines drained, messages kept, process exited
    builder,        \* a SystemPromptBuilder being filled in for a render
    prompt,         \* the SystemPrompt of the last build, None before it
    agent           \* a CompletionAgent: its vector store and the calls in progress on it

storeVars == <<messages, system_prompt, clock, aborted, last, regen, scenario, lastLtm>>
regVars == <<user_map, freewill_map, handles, config, platform, locks, tasks, shutdown>>
promptVars == <<builder, prompt, agent>>
vars == <<messages, system_prompt, clock, aborted, last, regen, scenario, lastLtm,
          user_map, freewill_map, handles, config, platform, locks, tasks, shutdown,
          builder, prompt, agent>>

-----------------------------------------------------------------------------
(* Bounds of the model *)

MaxClock == 3
MaxId == 3
MaxStm == 3
MaxLtm == 3
MaxBatch == 4
MaxFacts == 6
MaxTasks == 2
MaxFile == 1
MaxIdentifiers == 2

Ids == 1..MaxId
Roles == {"user", "assistant"}

-----------------------------------------------------------------------------
(* Option<T> *)

None == [some |-> FALSE, v |-> <<>>]
Some(x) == [some |-> TRUE, v |-> x]

Min(a, b) == IF a <= b THEN a ELSE b

-----------------------------------------------------------------------------
(* ChatMessage and branch_context::Messages<ChatMessage> (a Slot) *)

ChatMessage(role, content) == [role |-> role, content |-> content]

\* the forward / backward flags a Messages keeps beside its cursor
MessagesFlags(m) ==
    [m EXCEPT !.backward = (m.selected > 0),
              !.forward = (m.selected < Len(m.messages) - 1)]

\* Messages::new(message, id): one Variant, cursor 0
MessagesNew(message, id) ==
    [id |-> id, messages |-> <<message>>, selected |-> 0,
     forward |-> FALSE, backward |-> FALSE]

\* Messages::selected(): the Variant under the (zero-based) cursor
MessagesSelected(m) ==
    IF m.selected + 1 \in DOMAIN m.messages
    THEN m.messages[m.selected + 1]
    ELSE [role |-> "none", content |-> 0]

\* Messages::into_selected()
MessagesIntoSelected(m) == MessagesSelected(m)

\* Messages::backward(): move the cursor one Variant back
MessagesBackward(m) == MessagesFlags([m EXCEPT !.selected = m.selected - 1])

\* Messages::forward(): move the cursor one Variant on
MessagesForward(m) == MessagesFlags([m EXCEPT !.selected = m.selected + 1])

\* Messages::push(message): a regenerated Variant is appended and selected
MessagesPushDropFirst(m, message) ==
    MessagesFlags([m EXCEPT !.messages = Append(Tail(m.messages), message),
                            !.selected = Len(m.messages) - 1])
MessagesPush(m, message) ==
    MessagesFlags([m EXCEPT !.messages = Append(m.messages, message),
                            !.selected = Len(m.messages)])

-----------------------------------------------------------------------------
(* IndexMap<u64, Messages> as a sequence of Slots in insertion order *)

\* IndexMap::get_index_of: position of the key, 0 when absent
IndexOf(map, id) ==
    IF \E i \in 1..Len(map) : map[i].id = id
    THEN CHOOSE i \in 1..Len(map) : map[i].id = id
    ELSE 0

\* IndexMap::insert: an existing key keeps its position and its value is replaced
IndexMapInsertAlwaysPush(map, m) == Append(map, m)
IndexMapInsertMoveToEnd(map, m) ==
    Append(SelectSeq(map, LAMBDA x : x.id # m.id), m)
IndexMapInsert(map, m) ==
    IF IndexOf(map, m.id) = 0
    THEN Append(map, m)
    ELSE [map EXCEPT ![IndexOf(map, m.id)] = m]

\* IndexMap::drain(0..n)
DrainRest(map, n) == SubSeq(map, n + 1, Len(map))
DrainTaken(map, n) == SubSeq(map, 1, n)

-----------------------------------------------------------------------------
(* Observations (history variables) *)

NoOp == [op |-> "init", id |-> 0, res |-> "Ok", content |-> 0, can_go_fwd |-> "",
         context |-> <<>>, drained |-> None]

Observe(op, id, res, content, fwd, context, drained) ==
    [op |-> op, id |-> id, res |-> res, content |-> content, can_go_fwd |-> fwd,
     context |-> context, drained |-> drained]

NoRegen == [id |-> 0, orig |-> <<>>, k |-> 0]

NoLtm == [op |-> "init", batch |-> <<>>, pre |-> None]

\* the scenario observer: stage 1 after the first reply R1 opened a Slot, 2 after one
\* regenerate on it (R2), 3 after prev, 4 after the first next, 5 after the second next;
\* any operation that is not the scenario's next step, and any press whose edit of the
\* displayed message failed, ends the scenario
NoScenario == [stage |-> 0, id |-> 0, r1 |-> 0, r2 |-> 0]

ScenarioStep(op, id, res) ==
    IF res = "EditFailed"
    THEN NoScenario
    ELSE IF scenario.stage = 1 /\ op = "regenerate" /\ id = scenario.id
    THEN [scenario EXCEPT !.stage = 2, !.r2 = clock + 1]
    ELSE IF scenario.stage = 2 /\ op = "prev" /\ id = scenario.id
    THEN [scenario EXCEPT !.stage = 3]
    ELSE IF scenario.stage = 3 /\ op = "next" /\ id = scenario.id
    THEN [scenario EXCEPT !.stage = 4]
    ELSE IF scenario.stage = 4 /\ op = "next" /\ id = scenario.id
    THEN [scenario EXCEPT !.stage = 5]
    ELSE NoScenario

-----------------------------------------------------------------------------
(* ChatContext *)

\* ChatContext::new: an empty Branch Store beside a copy of the builder
ChatContextNew == <<>>

\* the user whose session the store operations work on
SessionUser == "A"

\* the Branch Store belongs to the engine held in user_map for the user: a change of
\* the store is a change of that entry
SessionStored ==
    /\ user_map' = IF user_map[SessionUser].present
                   THEN [user_map EXCEPT ![SessionUser].messages = messages']
                   ELSE user_map
    /\ UNCHANGED <<freewill_map, handles, config, platform, locks, tasks, shutdown>>

\* ChatContext::find_mut(id): lookup by key (get_mut(index) is the lookup by position)
FindMutByIndex(id) == IF id + 1 \in 1..Len(messages) THEN id + 1 ELSE 0
FindMutOrLatest(id) == IF IndexOf(messages, id) # 0 THEN IndexOf(messages, id) ELSE Len(messages)
FindMut(id) == IndexOf(messages, id)

\* ChatContext::latest() (context.rs:45-47): the last Slot in insertion order
Latest(map) == IF Len(map) # 0 THEN Some(map[Len(map)]) ELSE None

\* ChatContext::find(id) (context.rs:56-58)
Find(map, id) == IF IndexOf(map, id) # 0 THEN Some(map[IndexOf(map, id)]) ELSE None

\* ChatContext::add_message(message, Some(id))
AddMessage(role, id) ==
    /\ ~aborted
    /\ clock < MaxClock
    /\ LET message == ChatMessage(role, clock + 1)
           existed == IndexOf(messages, id) # 0
       IN /\ messages' = IndexMapInsert(messages, MessagesNew(message, id))
          /\ last' = Observe("add_message", id, "Ok", message.content, "", <<message>>, None)
          /\ scenario' = IF role = "assistant" /\ ~existed
                         THEN [stage |-> 1, id |-> id, r1 |-> clock + 1, r2 |-> 0]
                         ELSE NoScenario
    /\ clock' = clock + 1
    /\ regen' = NoRegen
    /\ UNCHANGED <<system_prompt, aborted, lastLtm>>
    /\ SessionStored
    /\ UNCHANGED promptVars

-----------------------------------------------------------------------------
(* Handler::prev, the "prev" button *)

\* prev.rs:27: the press is refused unless the Slot can go backward
PrevGuardNone(m) == TRUE
PrevGuardForward(m) == m.forward
PrevGuardNegated(m) == ~m.backward
PrevGuard(m) == m.backward

\* prev.rs:33: the label of the forward button, read after the move
CanGoFwdSwapped(m) == IF m.forward THEN "regen" ELSE "next"
CanGoFwd(m) == IF m.forward THEN "next" ELSE "regen"

-----------------------------------------------------------------------------
(* The "next" and "regenerate" buttons (handlers outside the given sources) *)

NextGuard(m) == m.forward

NextButton(id, editOk) ==
    /\ ~aborted
    /\ LET i == FindMut(id) IN
       IF i = 0
       THEN /\ last' = Observe("next", id, "NotFound", 0, "", <<>>, None)
            /\ UNCHANGED messages
       ELSE IF ~NextGuard(messages[i])
       THEN /\ last' = Observe("next", id, "AtEnd", 0, "", <<>>, None)
            /\ UNCHANGED messages
       ELSE LET m == MessagesForward(messages[i]) IN
            /\ messages' = [messages EXCEPT ![i] = m]
            /\ last' = Observe("next", id, IF editOk THEN "Ok" ELSE "EditFailed",
                               MessagesSelected(m).content, "", <<>>, None)
    /\ scenario' = ScenarioStep("next", id, last'.res)
    /\ regen' = NoRegen
    /\ UNCHANGED <<system_prompt, clock, aborted, lastLtm>>
    /\ SessionStored
    /\ UNCHANGED promptVars

\* regenerate: a new assistant Variant is pushed onto the existing Slot and selected
Regenerate(id) ==
    /\ ~aborted
    /\ clock < MaxClock
    /\ FindMut(id) # 0
    /\ LET i == FindMut(id)
           message == ChatMessage("assistant", clock + 1)
       IN /\ messages' = [messages EXCEPT ![i] = MessagesPush(messages[i], message)]
          /\ last' = Observe("regenerate", id, "Ok", message.content, "", <<>>, None)
          /\ regen' = IF regen.k > 0 /\ regen.id = id
                      THEN [regen EXCEPT !.k = regen.k + 1]
                      ELSE [id |-> id, orig |-> messages[i].messages, k |-> 1]
    /\ scenario' = ScenarioStep("regenerate", id, "Ok")
    /\ clock' = clock + 1
    /\ UNCHANGED <<system_prompt, aborted, lastLtm>>
    /\ SessionStored
    /\ UNCHANGED promptVars

-----------------------------------------------------------------------------
(* ChatContext::get_context, the Context Assembler *)

\* the rendered system prompt, element 0 of every assembled context
SystemMessage == ChatMessage("system", 0)

\* context.rs:114: the window is full
StmFullStrict(len, max_stm) == len > max_stm
StmFull(len, max_stm) == len >= max_stm

\* context.rs:115: how many of the oldest Slots are evicted
ToRemoveToCapacity(len, max_stm) == len - max_stm
ToRemoveOneLess(len, max_stm) == len - ((max_stm * 4) \div 5) - 1
ToRemove(len, max_stm) == len - ((max_stm * 4) \div 5)

\* context.rs:118-121: drain(0..to_remove), each Slot giving its selected Variant
DrainedNewest(map, n) ==
    [i \in 1..n |-> MessagesIntoSelected(map[Len(map) - n + i])]
Drained(map, n) ==
    [i \in 1..n |-> MessagesIntoSelected(DrainTaken(map, n)[i])]

RemainingNewestDropped(map, n) == SubSeq(map, 1, Len(map) - n)
Remaining(map, n) == DrainRest(map, n)

\* context.rs:82: the early return of an empty store
IsEmptyNever(map) == FALSE
IsEmpty(map) == Len(map) = 0

\* context.rs:132-138: the rendered prompt goes first, the Slots' Variants follow
ContextSystemLast(ctx) == Append(ctx, SystemMessage)
ContextOf(ctx) == <<SystemMessage>> \o ctx

\* context.rs:78-143: what get_context returns (context, drained) and the store it leaves.
\* ctx is collected from the whole store (context.rs:104-106) before the drain (114-125)
GetContextFnAfterDrain(map, max_stm) ==
    IF IsEmpty(map)
    THEN [context |-> <<SystemMessage>>, drained |-> None, messages |-> map]
    ELSE LET full == StmFull(Len(map), max_stm)
             to_remove == ToRemove(Len(map), max_stm)
             rest == IF full THEN Remaining(map, to_remove) ELSE map
             ctx == [i \in 1..Len(rest) |-> MessagesSelected(rest[i])]
         IN [context |-> ContextOf(ctx),
             drained |-> IF full THEN Some(Drained(map, to_remove)) ELSE None,
             messages |-> rest]
GetContextFn(map, max_stm) ==
    IF IsEmpty(map)
    THEN [context |-> <<SystemMessage>>, drained |-> None, messages |-> map]
    ELSE LET ctx == [i \in 1..Len(map) |-> MessagesSelected(map[i])]
             full == StmFull(Len(map), max_stm)
             to_remove == ToRemove(Len(map), max_stm)
         IN [context |-> ContextOf(ctx),
             drained |-> IF full THEN Some(Drained(map, to_remove)) ELSE None,
             messages |-> IF full THEN Remaining(map, to_remove) ELSE map]

GetContext ==
    /\ ~aborted
    /\ LET r == GetContextFn(messages, system_prompt.max_stm) IN
       /\ messages' = r.messages
       /\ last' = Observe("get_context", 0, "Ok", 0, "", r.context, r.drained)
    /\ scenario' = NoScenario
    /\ regen' = NoRegen
    /\ UNCHANGED <<system_prompt, clock, aborted, lastLtm>>
    /\ SessionStored
    /\ UNCHANGED promptVars

\* context.rs:158: rposition of the last assistant-role element, 0 when there is none
RPosition(seq, role) ==
    IF \E i \in 1..Len(seq) : seq[i].role = role
    THEN CHOOSE i \in 1..Len(seq) :
            /\ seq[i].role = role
            /\ \A j \in (i + 1)..Len(seq) : seq[j].role # role
    ELSE 0

RemoveAt(seq, p) == SubSeq(seq, 1, p - 1) \o SubSeq(seq, p + 1, Len(seq))

\* context.rs:158-160
RemoveFirstAssistant(context) ==
    IF \E i \in 1..Len(context) : context[i].role = "assistant"
    THEN RemoveAt(context, CHOOSE i \in 1..Len(context) :
                    /\ context[i].role = "assistant"
                    /\ \A j \in 1..(i - 1) : context[j].role # "assistant")
    ELSE context
RemoveLastAssistant(context) ==
    IF RPosition(context, "assistant") # 0
    THEN RemoveAt(context, RPosition(context, "assistant"))
    ELSE context

\* ChatContext::get_regen_context (context.rs:146-163)
GetRegenContext ==
    /\ ~aborted
    /\ LET r == GetContextFn(messages, system_prompt.max_stm) IN
       /\ messages' = r.messages
       /\ last' = Observe("get_regen_context", 0, "Ok", 0, "",
                          RemoveLastAssistant(r.context), r.drained)
    /\ scenario' = NoScenario
    /\ regen' = NoRegen
    /\ UNCHANGED <<system_prompt, clock, aborted, lastLtm>>
    /\ SessionStored
    /\ UNCHANGED promptVars

\* Messages::new(message, None): a Slot without an external message id gets an
\* identity no Slot of the store has
FreshId == MaxId + clock + 1

\* context.rs:181: the nudge is recorded as an id-less message
FreewillRecordNothing(map, message) == map
FreewillRecord(map, message) == IndexMapInsert(map, MessagesNew(message, FreshId))

\* ChatContext::time_since_last (context.rs:188-194) fails when latest() is None
TimeSinceLastFails(map) == Len(map) = 0

\* ChatContext::freewill_context (context.rs:165-186): get_context runs first, the
\* elapsed time is measured on the store it leaves
FreewillContext ==
    /\ ~aborted
    /\ LET r == GetContextFn(messages, system_prompt.max_stm)
           message == ChatMessage("user", clock + 1)
       IN IF TimeSinceLastFails(r.messages)
          THEN /\ messages' = r.messages
               /\ last' = Observe("freewill_context", 0, "EmptyContext", 0, "", <<>>, None)
               /\ UNCHANGED clock
          ELSE /\ clock < MaxClock
               /\ messages' = FreewillRecord(r.messages, message)
               /\ last' = Observe("freewill_context", FreshId, "Ok", message.content, "",
                                  Append(r.context, message), r.drained)
               /\ clock' = clock + 1
    /\ scenario' = NoScenario
    /\ regen' = NoRegen
    /\ UNCHANGED <<system_prompt, aborted, lastLtm>>
    /\ SessionStored
    /\ UNCHANGED promptVars

-----------------------------------------------------------------------------
(* The clear command: the user's engine is replaced by a fresh one, built from the
   configuration as re-read at that moment *)

SystemPromptBuilderNew(max_ltm, max_stm) ==
    [max_ltm |-> max_ltm, max_stm |-> max_stm, long_term_memory |-> None]

-----------------------------------------------------------------------------
(* SystemPromptBuilder: the bounded long-term-memory list.  A call that panics
   (Vec::remove or Vec::drain out of range) is reported as panic = TRUE. *)

Returned(b) == [panic |-> FALSE, builder |-> b]
Panicked(b) == [panic |-> TRUE, builder |-> b]

\* prompt.rs:405-419
AddLongTermMemoryFn(b, fact) ==
    IF b.long_term_memory.some
    THEN LET ltm == b.long_term_memory.v IN
         IF Len(ltm) + 1 > b.max_ltm
         THEN IF Len(ltm) = 0
              THEN Panicked(b)
              ELSE Returned([b EXCEPT !.long_term_memory = Some(Append(Tail(ltm), fact))])
         ELSE Returned([b EXCEPT !.long_term_memory = Some(Append(ltm, fact))])
    ELSE Returned([b EXCEPT !.long_term_memory = Some(<<fact>>)])

\* prompt.rs:428-432: how many of the oldest facts a bulk add drains
DrainCountOneMore(new_len, max_ltm) == new_len - max_ltm + 1
DrainCount(new_len, max_ltm) == new_len - max_ltm

\* prompt.rs:420-439
AddLongTermMemoriesFn(b, batch) ==
    IF b.long_term_memory.some
    THEN LET ltm == b.long_term_memory.v
             new_len == Len(batch) + Len(ltm)
         IN IF Len(ltm) > b.max_ltm
            THEN Returned(b)
            ELSE IF new_len > b.max_ltm
            THEN IF DrainCount(new_len, b.max_ltm) > Len(ltm)
                 THEN Panicked(b)
                 ELSE Returned([b EXCEPT !.long_term_memory =
                        Some(SubSeq(ltm, DrainCount(new_len, b.max_ltm) + 1, Len(ltm)) \o batch)])
            ELSE Returned([b EXCEPT !.long_term_memory = Some(ltm \o batch)])
    ELSE Returned([b EXCEPT !.long_term_memory = Some(batch)])

ObserveLtm(op, batch) == [op |-> op, batch |-> batch, pre |-> system_prompt.long_term_memory]

AddLongTermMemory ==
    /\ ~aborted
    /\ clock < MaxFacts
    /\ LET r == AddLongTermMemoryFn(system_prompt, clock + 1) IN
       /\ system_prompt' = r.builder
       /\ aborted' = r.panic
    /\ lastLtm' = ObserveLtm("add_long_term_memory", <<clock + 1>>)
    /\ clock' = clock + 1
    /\ UNCHANGED <<messages, last, regen, scenario>>
    /\ UNCHANGED regVars
    /\ UNCHANGED promptVars

AddLongTermMemories(n) ==
    /\ ~aborted
    /\ clock + n <= MaxFacts
    /\ LET batch == [i \in 1..n |-> clock + i]
           r == AddLongTermMemoriesFn(system_prompt, batch)
       IN /\ system_prompt' = r.builder
          /\ aborted' = r.panic
          /\ lastLtm' = ObserveLtm("add_long_term_memories", batch)
    /\ clock' = clock + n
    /\ UNCHANGED <<messages, last, regen, scenario>>
    /\ UNCHANGED regVars
    /\ UNCHANGED promptVars

-----------------------------------------------------------------------------
(* The Session Registry (Data.user_map), the nudge map (Data.freewill_map), the
   configuration and the handler tasks that run concurrently on them.  One step of a
   task is the code between two await points; a tokio guard bound with `let` is held
   to the end of the handler. *)

Users == {"A", "B"}
TaskIds == 1..MaxTasks
ShutdownTask == MaxTasks + 1
PressedId == 1

\* an engine (session) of the registry; ChatEngine::new(config, id) starts it empty
Absent == [present |-> FALSE, config |-> 0, messages |-> <<>>]
ChatEngineNew(cfg) == [present |-> TRUE, config |-> cfg, messages |-> ChatContextNew]

\* a session whose first reply was regenerated once: one Slot, two Variants, the
\* cursor on the second
ChatEngineUsed ==
    [present |-> TRUE, config |-> 0,
     messages |-> <<MessagesPush(MessagesNew(ChatMessage("assistant", 1), PressedId),
                                 ChatMessage("assistant", 2))>>]

IdleTask ==
    [kind |-> "none", user |-> "none", pc |-> "idle", id |-> 0, config1 |-> 0, config2 |-> 0]

\* Data.context is None until ready stores it; ready: a ready event has set the
\* presence and waits for context.write()
PlatformIdle == [context |-> FALSE, presence |-> "none", ready |-> FALSE]
PlatformReady == [context |-> TRUE, presence |-> "online", ready |-> FALSE]
LocksFree ==
    [user_map_writer |-> 0, user_map_readers |-> {}, engine |-> [u \in Users |-> 0],
     freewill_map |-> 0, context |-> 0, config |-> 0]
\* the shutdown task: the engines whose shutdown() returned Ok, the engine whose lock
\* it holds, the identifiers of that engine still to fetch, and the length of the
\* Vec of kept messages, which the last loop consumes (mod.rs:152)
ShutdownIdle ==
    [drained |-> {}, engine |-> "none", identifiers |-> 0, messages |-> 0,
     exited |-> FALSE]

RegistryOf(map) ==
    /\ user_map = map
    /\ freewill_map = [u \in Users |-> 0]
    /\ handles = [spawned |-> 0, aborted |-> {}]
    /\ config = [memory |-> 0, file |-> 0]
    /\ platform = PlatformIdle
    /\ locks = LocksFree
    /\ tasks = [t \in 1..ShutdownTask |-> IdleTask]
    /\ shutdown = ShutdownIdle

RegistryIdle == RegistryOf([u \in Users |-> Absent])

\* tokio::sync::RwLock on user_map: write() needs no holder at all, read() no writer
UserMapWriteFree == locks.user_map_writer = 0 /\ locks.user_map_readers = {}
UserMapReadFree == locks.user_map_writer = 0

\* the guards a finished handler drops
Released(l, t) ==
    [user_map_writer |-> IF l.user_map_writer = t THEN 0 ELSE l.user_map_writer,
     user_map_readers |-> l.user_map_readers \ {t},
     engine |-> [u \in Users |-> IF l.engine[u] = t THEN 0 ELSE l.engine[u]],
     freewill_map |-> IF l.freewill_map = t THEN 0 ELSE l.freewill_map,
     context |-> IF l.context = t THEN 0 ELSE l.context,
     config |-> IF l.config = t THEN 0 ELSE l.config]

\* prev.rs:18, clear.rs:17 and clear.rs:25, `data.config.write().await.update();`: the
\* write guard is a temporary of the statement and is dropped at its end, before the
\* next statement asks for config.read(); a guard bound with `let` would live to the
\* end of the block
ConfigWriteGuardBlock == "block"
ConfigWriteGuard == "statement"
ConfigWriteHolder(t) == IF ConfigWriteGuard = "statement" THEN 0 ELSE t

\* tokio::sync::RwLock on config: write() and read() both wait while a writer holds it
ConfigFree == locks.config = 0

\* Config::update(): the in-memory configuration is re-read from its file
ConfigUpdateSkipped(cfg) == cfg
ConfigUpdate(cfg) == [cfg EXCEPT !.memory = cfg.file]

\* Entry::or_insert_with: a present value is left as it is
OrInsertWithAlways(map, u, engine) == [map EXCEPT ![u] = engine]
OrInsertWith(map, u, engine) ==
    IF map[u].present THEN map ELSE [map EXCEPT ![u] = engine]

\* Entry::and_modify(|engine| *engine = new): the closure runs at once on a present
\* value, an absent one stays absent
AndModify(map, u, new) ==
    IF map[u].present THEN [map EXCEPT ![u] = new] ELSE map

\* how a handler acquires user_map
PrevUserMapShared == "read"
PrevUserMap == "write"

Step(t, pc) == tasks' = [tasks EXCEPT ![t].pc = pc]
Finish(t) ==
    /\ tasks' = [tasks EXCEPT ![t] = [IdleTask EXCEPT !.pc = "done"]]
    /\ locks' = Released(locks, t)
Running(t, kind, pc) ==
    /\ ~shutdown.exited
    /\ tasks[t].kind = kind
    /\ tasks[t].pc = pc

-----------------------------------------------------------------------------
(* The environment: interactions arrive, the configuration file is edited, the
   platform session becomes ready, the process is told to stop *)

FirstIdle == CHOOSE t \in TaskIds : tasks[t].pc = "idle" /\ \A s \in 1..(t - 1) : tasks[s].pc # "idle"

Spawn(kind, u) ==
    /\ ~shutdown.exited
    /\ \E t \in TaskIds : tasks[t].pc = "idle"
    /\ tasks' = [tasks EXCEPT ![FirstIdle] =
                    [IdleTask EXCEPT !.kind = kind, !.user = u, !.pc = "start",
                                     !.id = IF kind = "prev" THEN PressedId ELSE 0]]
    /\ UNCHANGED <<user_map, freewill_map, handles, config, platform, locks, shutdown>>
    /\ UNCHANGED storeVars
    /\ UNCHANGED promptVars

ConfigEdit ==
    /\ ~shutdown.exited
    /\ config.file < MaxFile
    /\ config' = [config EXCEPT !.file = config.file + 1]
    /\ UNCHANGED <<user_map, freewill_map, handles, platform, locks, tasks, shutdown>>
    /\ UNCHANGED storeVars
    /\ UNCHANGED promptVars

\* mod.rs:78-104: a ready event (the first connection or a reconnect) sets the
\* presence online with no lock held (mod.rs:81) and then asks for context.write()
ReadyPresence ==
    /\ ~shutdown.exited
    /\ ~platform.ready
    /\ platform' = [platform EXCEPT !.presence = "online", !.ready = TRUE]
    /\ UNCHANGED <<user_map, freewill_map, handles, config, locks, tasks, shutdown>>
    /\ UNCHANGED storeVars
    /\ UNCHANGED promptVars

\* mod.rs:104: context.write().await is granted and the context is stored; the guard
\* is a temporary of the statement
ReadyStore ==
    /\ ~shutdown.exited
    /\ platform.ready
    /\ locks.context = 0
    /\ platform' = [platform EXCEPT !.context = TRUE, !.ready = FALSE]
    /\ UNCHANGED <<user_map, freewill_map, handles, config, locks, tasks, shutdown>>
    /\ UNCHANGED storeVars
    /\ UNCHANGED promptVars

\* mod.rs:27-40: the shutdown signal starts Handler::shutdown
Signal ==
    /\ ~shutdown.exited
    /\ tasks[ShutdownTask].pc = "idle"
    /\ tasks' = [tasks EXCEPT ![ShutdownTask] = [IdleTask EXCEPT !.kind = "shutdown", !.pc = "start"]]
    /\ UNCHANGED <<user_map, freewill_map, handles, config, platform, locks, shutdown>>
    /\ UNCHANGED storeVars
    /\ UNCHANGED promptVars

-----------------------------------------------------------------------------
(* Handler::prev as a task (prev.rs:9-62) on the message PressedId *)

\* prev.rs:16: user_map.write().await, held to the end of the handler
PrevAcquireUserMap(t) ==
    /\ Running(t, "prev", "start")
    /\ IF PrevUserMap = "write"
       THEN /\ UserMapWriteFree
            /\ locks' = [locks EXCEPT !.user_map_writer = t]
       ELSE /\ UserMapReadFree
            /\ locks' = [locks EXCEPT !.user_map_readers = @ \cup {t}]
    /\ Step(t, "locked")
    /\ UNCHANGED <<user_map, freewill_map, handles, config, platform, shutdown>>
    /\ UNCHANGED storeVars
    /\ UNCHANGED promptVars

\* prev.rs:18: data.config.write().await.update(), evaluated whether or not the
\* session exists; the write guard is a temporary, dropped with the statement
PrevConfigUpdate(t) ==
    /\ Running(t, "prev", "locked")
    /\ ConfigFree
    /\ config' = ConfigUpdate(config)
    /\ locks' = [locks EXCEPT !.config = ConfigWriteHolder(t)]
    /\ Step(t, "updated")
    /\ UNCHANGED <<user_map, freewill_map, handles, platform, shutdown>>
    /\ UNCHANGED storeVars
    /\ UNCHANGED promptVars

\* prev.rs:19-31, woken from data.config.read().await: the configuration is cloned,
\* or_insert_with takes or inserts the entry (ChatEngine::new is called by the closure),
\* then find_mut, the backward test and the move; a refused press returns, a moved
\* cursor leads to the edit of the displayed message (prev.rs:38-59)
PrevEntry(t) ==
    /\ Running(t, "prev", "updated")
    /\ ConfigFree
    /\ LET u == tasks[t].user
           map == OrInsertWith(user_map, u, ChatEngineNew(config.memory))
           store == map[u].messages
           i == IndexOf(store, tasks[t].id)
       IN IF i # 0 /\ PrevGuard(store[i])
          THEN /\ user_map' = [map EXCEPT ![u].messages[i] = MessagesBackward(store[i])]
               /\ Step(t, "edit")
               /\ UNCHANGED locks
          ELSE /\ user_map' = map
               /\ Finish(t)
    /\ UNCHANGED <<freewill_map, handles, config, platform, shutdown>>
    /\ UNCHANGED storeVars
    /\ UNCHANGED promptVars

\* prev.rs:38-59: the edit of the displayed message, an outbound call made under the
\* guard; its outcome is only the handler's result
PrevEdit(t) ==
    /\ Running(t, "prev", "edit")
    /\ Finish(t)
    /\ UNCHANGED <<user_map, freewill_map, handles, config, platform, shutdown>>
    /\ UNCHANGED storeVars
    /\ UNCHANGED promptVars

-----------------------------------------------------------------------------
(* The clear command as a task (clear.rs:8-44) *)

\* clear.rs:13
ClearAcquireUserMap(t) ==
    /\ Running(t, "clear", "start")
    /\ UserMapWriteFree
    /\ locks' = [locks EXCEPT !.user_map_writer = t]
    /\ Step(t, "locked")
    /\ UNCHANGED <<user_map, freewill_map, handles, config, platform, shutdown>>
    /\ UNCHANGED storeVars
    /\ UNCHANGED promptVars

\* clear.rs:17 and clear.rs:24: the argument blocks of and_modify and of
\* or_insert_with are both evaluated, each re-reads the configuration
ClearConfigUpdate(t) ==
    /\ ~shutdown.exited
    /\ tasks[t].kind = "clear"
    /\ tasks[t].pc \in {"locked", "built1"}
    /\ ConfigFree
    /\ config' = ConfigUpdate(config)
    /\ locks' = [locks EXCEPT !.config = ConfigWriteHolder(t)]
    /\ Step(t, IF tasks[t].pc = "locked" THEN "updated1" ELSE "updated2")
    /\ UNCHANGED <<user_map, freewill_map, handles, platform, shutdown>>
    /\ UNCHANGED storeVars
    /\ UNCHANGED promptVars

\* clear.rs:18 and clear.rs:26: data.config.read().await.clone(); ChatEngine::new is
\* called with the clone and awaited (clear.rs:19, clear.rs:27)
ClearConfigRead(t) ==
    /\ ~shutdown.exited
    /\ tasks[t].kind = "clear"
    /\ tasks[t].pc \in {"updated1", "updated2"}
    /\ ConfigFree
    /\ tasks' = IF tasks[t].pc = "updated1"
                THEN [tasks EXCEPT ![t].pc = "read1", ![t].config1 = config.memory]
                ELSE [tasks EXCEPT ![t].pc = "read2", ![t].config2 = config.memory]
    /\ UNCHANGED <<user_map, freewill_map, handles, config, platform, locks, shutdown>>
    /\ UNCHANGED storeVars
    /\ UNCHANGED promptVars

\* clear.rs:19-23: the first ChatEngine::new returns and and_modify is called with
\* the closure: a present session is replaced at once, before the argument of
\* or_insert_with is evaluated; the command then asks for config.write() again
ClearBuild(t) ==
    /\ Running(t, "clear", "read1")
    /\ user_map' = AndModify(user_map, tasks[t].user, ChatEngineNew(tasks[t].config1))
    /\ Step(t, "built1")
    /\ UNCHANGED <<freewill_map, handles, config, platform, locks, shutdown>>
    /\ UNCHANGED storeVars
    /\ UNCHANGED promptVars

\* clear.rs:27-31: the second ChatEngine::new returns and or_insert_with is called:
\* the second engine is inserted when there is no session and dropped otherwise; the
\* command then asks for freewill_map.write()
ClearEntry(t) ==
    /\ Running(t, "clear", "read2")
    /\ user_map' = OrInsertWith(user_map, tasks[t].user, ChatEngineNew(tasks[t].config2))
    /\ Step(t, "entry")
    /\ UNCHANGED <<freewill_map, handles, config, platform, locks, shutdown>>
    /\ UNCHANGED storeVars
    /\ UNCHANGED promptVars

\* clear.rs:32-34: freewill_map.remove(author) and handle.abort()
RemoveNudgeOnly(fw, hs, u) == [map |-> [fw EXCEPT ![u] = 0], handles |-> hs]
RemoveNudge(fw, hs, u) ==
    IF fw[u] # 0
    THEN [map |-> [fw EXCEPT ![u] = 0], handles |-> [hs EXCEPT !.aborted = @ \cup {fw[u]}]]
    ELSE [map |-> fw, handles |-> hs]

\* clear.rs:31-34: freewill_map.write().await, held to the end of the command
ClearNudge(t) ==
    /\ Running(t, "clear", "entry")
    /\ locks.freewill_map = 0
    /\ LET r == RemoveNudge(freewill_map, handles, tasks[t].user) IN
       /\ freewill_map' = r.map
       /\ handles' = r.handles
    /\ locks' = [locks EXCEPT !.freewill_map = t]
    /\ Step(t, "send")
    /\ UNCHANGED <<user_map, config, platform, shutdown>>
    /\ UNCHANGED storeVars
    /\ UNCHANGED promptVars

\* clear.rs:36-41: the confirmation is sent, an outbound call made under both guards
ClearSend(t) ==
    /\ Running(t, "clear", "send")
    /\ Finish(t)
    /\ UNCHANGED <<user_map, freewill_map, handles, config, platform, shutdown>>
    /\ UNCHANGED storeVars
    /\ UNCHANGED promptVars

-----------------------------------------------------------------------------
(* A completion turn as a task: the session is reached through the registry held
   shared, and its own lock is held from the append of the user's message to the
   append of the reply; the reply schedules the user's next nudge *)

TurnAcquireUserMap(t) ==
    /\ Running(t, "turn", "start")
    /\ UserMapReadFree
    /\ locks' = [locks EXCEPT !.user_map_readers = @ \cup {t}]
    /\ Step(t, "map")
    /\ UNCHANGED <<user_map, freewill_map, handles, config, platform, shutdown>>
    /\ UNCHANGED storeVars
    /\ UNCHANGED promptVars

TurnAcquireEngine(t) ==
    /\ Running(t, "turn", "map")
    /\ IF user_map[tasks[t].user].present
       THEN /\ locks.engine[tasks[t].user] = 0
            /\ locks' = [locks EXCEPT !.engine[tasks[t].user] = t]
            /\ Step(t, "engine")
       ELSE Finish(t)
    /\ UNCHANGED <<user_map, freewill_map, handles, config, platform, shutdown>>
    /\ UNCHANGED storeVars
    /\ UNCHANGED promptVars

TurnMessage(store, role) ==
    MessagesNew(ChatMessage(role, Len(store) + 1), PressedId + Len(store) + 1)

TurnAppend(t) ==
    /\ Running(t, "turn", "engine")
    /\ user_map' = [user_map EXCEPT ![tasks[t].user].messages =
                       IndexMapInsert(@, TurnMessage(@, "user"))]
    /\ Step(t, "completion")
    /\ UNCHANGED <<freewill_map, handles, config, platform, locks, shutdown>>
    /\ UNCHANGED storeVars
    /\ UNCHANGED promptVars

ScheduleNudge(fw, hs, u) ==
    [map |-> [fw EXCEPT ![u] = hs.spawned + 1],
     handles |-> [spawned |-> hs.spawned + 1,
                  aborted |-> IF fw[u] # 0 THEN hs.aborted \cup {fw[u]} ELSE hs.aborted]]

TurnReply(t) ==
    /\ Running(t, "turn", "completion")
    /\ locks.freewill_map = 0
    /\ user_map' = [user_map EXCEPT ![tasks[t].user].messages =
                       IndexMapInsert(@, TurnMessage(@, "assistant"))]
    /\ LET r == ScheduleNudge(freewill_map, handles, tasks[t].user) IN
       /\ freewill_map' = r.map
       /\ handles' = r.handles
    /\ Finish(t)
    /\ UNCHANGED <<config, platform, shutdown>>
    /\ UNCHANGED storeVars
    /\ UNCHANGED promptVars

-----------------------------------------------------------------------------------------------------------------------------------------------------
(* Handler::prev and the clear command on the session of SessionUser, whose Branch
   Store is `messages` and whose builder is `system_prompt`; user_map[SessionUser]
   is the entry that holds the store, with the configuration it was built from.  The steps
   are those of the tasks above; the handler runs as SessionTask and holds
   user_map.write() from its first step to its return, so no other operation reaches
   the session in between. *)

SessionTask == 1

\* no handler holds the registry: the session can be reached
SessionIdle == tasks[SessionTask].pc = "idle" /\ UserMapWriteFree

\* a handler that has not returned yet; its arrival ends a streak of regenerations,
\* and ends the scenario unless it is the scenario's prev
Pending(op, id) == Observe(op, id, "Pending", 0, "", <<>>, None)

\* the handler returns: its guards are dropped
Return(t) ==
    /\ tasks' = [tasks EXCEPT ![t] = IdleTask]
    /\ locks' = Released(locks, t)

\* prev.rs:9-16: a press on the message id arrives and user_map.write() is granted
PrevPress(id) ==
    /\ ~aborted
    /\ ~shutdown.exited
    /\ SessionIdle
    /\ tasks' = [tasks EXCEPT ![SessionTask] =
                    [IdleTask EXCEPT !.kind = "prev", !.user = SessionUser,
                                     !.pc = "locked", !.id = id]]
    /\ locks' = [locks EXCEPT !.user_map_writer = SessionTask]
    /\ last' = Pending("prev", id)
    /\ scenario' = IF scenario.stage = 2 /\ id = scenario.id THEN scenario ELSE NoScenario
    /\ regen' = NoRegen
    /\ UNCHANGED <<messages, system_prompt, clock, aborted, lastLtm>>
    /\ UNCHANGED <<user_map, freewill_map, handles, config, platform, shutdown>>
    /\ UNCHANGED promptVars

\* prev.rs:19-36, woken from data.config.read().await: the session entry is taken
\* with or_insert_with (an absent session is created empty, and the lookup then fails
\* as in any store without the id), then find_mut (prev.rs:23-25), the backward test
\* (prev.rs:27-29), the move (prev.rs:31) and the forward label (prev.rs:33-36).  A
\* refused press returns; after a move the displayed message is edited (prev.rs:38-59)
PrevFind ==
    /\ Running(SessionTask, "prev", "updated")
    /\ ConfigFree
    /\ LET id == tasks[SessionTask].id
           i == FindMut(id)
       IN IF i = 0
          THEN /\ last' = Observe("prev", id, "NotFound", 0, "", <<>>, None)
               /\ scenario' = ScenarioStep("prev", id, "NotFound")
               /\ Return(SessionTask)
               /\ UNCHANGED messages
          ELSE IF ~PrevGuard(messages[i])
          THEN /\ last' = Observe("prev", id, "AtStart", 0, "", <<>>, None)
               /\ scenario' = ScenarioStep("prev", id, "AtStart")
               /\ Return(SessionTask)
               /\ UNCHANGED messages
          ELSE LET m == MessagesBackward(messages[i]) IN
               /\ messages' = [messages EXCEPT ![i] = m]
               /\ last' = Observe("prev", id, "Moved", MessagesSelected(m).content,
                                  CanGoFwd(m), <<>>, None)
               /\ Step(SessionTask, "edit")
               /\ UNCHANGED <<scenario, locks>>
    /\ user_map' = [OrInsertWith(user_map, SessionUser, ChatEngineNew(config.memory))
                        EXCEPT ![SessionUser].messages = messages']
    /\ UNCHANGED <<system_prompt, clock, aborted, regen, lastLtm>>
    /\ UNCHANGED <<freewill_map, handles, config, platform, shutdown>>
    /\ UNCHANGED promptVars

\* prev.rs:59-61: the edit of the displayed message returns, after the cursor has
\* moved; editOk is its outcome, which `?` makes the handler's result
PrevEdited(editOk) ==
    /\ Running(SessionTask, "prev", "edit")
    /\ last' = [last EXCEPT !.res = IF editOk THEN "Ok" ELSE "EditFailed"]
    /\ scenario' = ScenarioStep("prev", last.id, last'.res)
    /\ Return(SessionTask)
    /\ UNCHANGED <<messages, system_prompt, clock, aborted, regen, lastLtm>>
    /\ UNCHANGED <<user_map, freewill_map, handles, config, platform, shutdown>>
    /\ UNCHANGED promptVars

\* Handler::prev on the session, step by step
Prev ==
    \/ \E id \in Ids : PrevPress(id)
    \/ PrevConfigUpdate(SessionTask)
    \/ PrevFind
    \/ \E editOk \in BOOLEAN : PrevEdited(editOk)

\* clear.rs:10-13: the command arrives and user_map.write() is granted
ClearCommand ==
    /\ ~aborted
    /\ ~shutdown.exited
    /\ SessionIdle
    /\ tasks' = [tasks EXCEPT ![SessionTask] =
                    [IdleTask EXCEPT !.kind = "clear", !.user = SessionUser,
                                     !.pc = "locked"]]
    /\ locks' = [locks EXCEPT !.user_map_writer = SessionTask]
    /\ last' = Pending("clear", 0)
    /\ scenario' = NoScenario
    /\ regen' = NoRegen
    /\ UNCHANGED <<messages, system_prompt, clock, aborted, lastLtm>>
    /\ UNCHANGED <<user_map, freewill_map, handles, config, platform, shutdown>>
    /\ UNCHANGED promptVars

\* clear.rs:19-23: the first ChatEngine::new returns and and_modify replaces a present
\* session: its Branch Store is empty and its builder is made from the configuration
\* as re-read (max_stm)
ClearModify(max_stm) ==
    /\ Running(SessionTask, "clear", "read1")
    /\ user_map' = AndModify(user_map, SessionUser, ChatEngineNew(tasks[SessionTask].config1))
    /\ IF user_map[SessionUser].present
       THEN /\ messages' = ChatContextNew
            /\ system_prompt' = SystemPromptBuilderNew(system_prompt.max_ltm, max_stm)
       ELSE UNCHANGED <<messages, system_prompt>>
    /\ Step(SessionTask, "built1")
    /\ UNCHANGED <<clock, aborted, last, regen, scenario, lastLtm>>
    /\ UNCHANGED <<freewill_map, handles, config, platform, locks, shutdown>>
    /\ UNCHANGED promptVars

\* clear.rs:27-29: the second ChatEngine::new returns and or_insert_with inserts its
\* engine when there was no session
ClearInsert(max_stm) ==
    /\ Running(SessionTask, "clear", "read2")
    /\ user_map' = OrInsertWith(user_map, SessionUser, ChatEngineNew(tasks[SessionTask].config2))
    /\ IF user_map[SessionUser].present
       THEN UNCHANGED <<messages, system_prompt>>
       ELSE /\ messages' = ChatContextNew
            /\ system_prompt' = SystemPromptBuilderNew(system_prompt.max_ltm, max_stm)
    /\ Step(SessionTask, "entry")
    /\ UNCHANGED <<clock, aborted, last, regen, scenario, lastLtm>>
    /\ UNCHANGED <<freewill_map, handles, config, platform, locks, shutdown>>
    /\ UNCHANGED promptVars

\* clear.rs:41-43: ctx.send returns; sendOk is its outcome, which `?` makes the
\* command's result, with the session already cleared
ClearSent(sendOk) ==
    /\ Running(SessionTask, "clear", "send")
    /\ last' = Observe("clear", 0, IF sendOk THEN "Ok" ELSE "SendFailed", 0, "", <<>>, None)
    /\ Return(SessionTask)
    /\ UNCHANGED <<messages, system_prompt, clock, aborted, regen, scenario, lastLtm>>
    /\ UNCHANGED <<user_map, freewill_map, handles, config, platform, shutdown>>
    /\ UNCHANGED promptVars

\* the clear command on the session, step by step
Clear ==
    \/ ClearCommand
    \/ ClearConfigUpdate(SessionTask)
    \/ ClearConfigRead(SessionTask)
    \/ \E s \in 0..MaxStm : ClearModify(s)
    \/ \E s \in 0..MaxStm : ClearInsert(s)
    \/ ClearNudge(SessionTask)
    \/ \E sendOk \in BOOLEAN : ClearSent(sendOk)

-----
(* Handler::shutdown as a task (mod.rs:133-167), followed by exit(0) (mod.rs:39) *)

\* mod.rs:135
ShutdownAcquireUserMap ==
    /\ Running(ShutdownTask, "shutdown", "start")
    /\ UserMapWriteFree
    /\ locks' = [locks EXCEPT !.user_map_writer = ShutdownTask]
    /\ Step(ShutdownTask, "map")
    /\ UNCHANGED <<user_map, freewill_map, handles, config, platform, shutdown>>
    /\ UNCHANGED storeVars
    /\ UNCHANGED promptVars

\* mod.rs:136
ShutdownAcquireContext ==
    /\ Running(ShutdownTask, "shutdown", "map")
    /\ locks.context = 0
    /\ locks' = [locks EXCEPT !.context = ShutdownTask]
    /\ Step(ShutdownTask, "loop")
    /\ UNCHANGED <<user_map, freewill_map, handles, config, platform, shutdown>>
    /\ UNCHANGED storeVars
    /\ UNCHANGED promptVars

\* mod.rs:139: the loop over user_map has visited every engine
LoopDoneAfterFirst(map, drained) ==
    drained # {} \/ \A u \in Users : ~map[u].present
LoopDone(map, drained) == \A u \in Users : map[u].present => u \in drained

\* mod.rs:139-147: the end of one round of the loop: the engine's write guard, a
\* temporary of the `for` expression, is dropped
RoundDone(sd) == [sd EXCEPT !.engine = "none", !.identifiers = 0]

\* mod.rs:140: engine.write().await is granted for the next engine of the iteration
\* and engine.shutdown() is called
ShutdownAcquireEngine(u) ==
    /\ Running(ShutdownTask, "shutdown", "loop")
    /\ ~LoopDone(user_map, shutdown.drained)
    /\ user_map[u].present
    /\ u \notin shutdown.drained
    /\ locks.engine[u] = 0
    /\ locks' = [locks EXCEPT !.engine[u] = ShutdownTask]
    /\ shutdown' = [shutdown EXCEPT !.engine = u]
    /\ Step(ShutdownTask, "engine")
    /\ UNCHANGED <<user_map, freewill_map, handles, config, platform>>
    /\ UNCHANGED storeVars
    /\ UNCHANGED promptVars

\* mod.rs:140-142: engine.shutdown().await returns.  An error makes shutdown return it
\* (`?`), it is logged (mod.rs:35-37) and the process exits (mod.rs:38).  Otherwise it
\* returns n message identifiers: with a platform context to_message is called on the
\* first of them, without one they are passed over
ShutdownEngine(ok, n) ==
    /\ Running(ShutdownTask, "shutdown", "engine")
    /\ IF ~ok
       THEN /\ shutdown' = [shutdown EXCEPT !.exited = TRUE]
            /\ Finish(ShutdownTask)
       ELSE IF n > 0 /\ platform.context
       THEN /\ shutdown' = [shutdown EXCEPT !.drained = @ \cup {shutdown.engine},
                                            !.identifiers = n]
            /\ Step(ShutdownTask, "to_message")
            /\ UNCHANGED locks
       ELSE /\ shutdown' = RoundDone([shutdown EXCEPT !.drained = @ \cup {shutdown.engine}])
            /\ Step(ShutdownTask, "loop")
            /\ locks' = [locks EXCEPT !.engine[shutdown.engine] = 0]
    /\ UNCHANGED <<user_map, freewill_map, handles, config, platform>>
    /\ UNCHANGED storeVars
    /\ UNCHANGED promptVars

\* mod.rs:142-144: to_message(..).await returns for one identifier; the message is
\* kept when it was found (fetched); after the last identifier the round ends
ShutdownToMessage(fetched) ==
    /\ Running(ShutdownTask, "shutdown", "to_message")
    /\ LET kept == [shutdown EXCEPT !.messages = IF fetched THEN @ + 1 ELSE @,
                                    !.identifiers = @ - 1]
       IN IF kept.identifiers > 0
          THEN /\ shutdown' = kept
               /\ UNCHANGED <<tasks, locks>>
          ELSE /\ shutdown' = RoundDone(kept)
               /\ Step(ShutdownTask, "loop")
               /\ locks' = [locks EXCEPT !.engine[shutdown.engine] = 0]
    /\ UNCHANGED <<user_map, freewill_map, handles, config, platform>>
    /\ UNCHANGED storeVars
    /\ UNCHANGED promptVars

\* mod.rs:149-150: with a platform context the presence is set offline; without one
\* shutdown returns and the process exits
ShutdownOffline ==
    /\ Running(ShutdownTask, "shutdown", "loop")
    /\ LoopDone(user_map, shutdown.drained)
    /\ IF platform.context
       THEN /\ platform' = [platform EXCEPT !.presence = "offline"]
            /\ Step(ShutdownTask, "disable")
            /\ UNCHANGED <<locks, shutdown>>
       ELSE /\ shutdown' = [shutdown EXCEPT !.exited = TRUE]
            /\ Finish(ShutdownTask)
            /\ UNCHANGED platform
    /\ UNCHANGED <<user_map, freewill_map, handles, config>>
    /\ UNCHANGED storeVars
    /\ UNCHANGED promptVars

\* mod.rs:152-159: disable_buttons on one kept message; a failure is logged by
\* map_err and the loop goes on to the next message
ShutdownDisableButtons(ok) ==
    /\ Running(ShutdownTask, "shutdown", "disable")
    /\ shutdown.messages > 0
    /\ shutdown' = [shutdown EXCEPT !.messages = @ - 1]
    /\ UNCHANGED <<user_map, freewill_map, handles, config, platform, locks, tasks>>
    /\ UNCHANGED storeVars
    /\ UNCHANGED promptVars

\* mod.rs:161-166 and mod.rs:39: every kept message was visited, the shard is shut
\* down, shutdown returns and the process exits
ShutdownDisable ==
    /\ Running(ShutdownTask, "shutdown", "disable")
    /\ shutdown.messages = 0
    /\ shutdown' = [shutdown EXCEPT !.exited = TRUE]
    /\ Finish(ShutdownTask)
    /\ UNCHANGED <<user_map, freewill_map, handles, config, platform>>
    /\ UNCHANGED storeVars
    /\ UNCHANGED promptVars

\* the calls that can be in progress on one CompletionAgent at once (its methods
\* take &self)
Callers == {"first", "second"}

\* a call slot before its first call
NoCall ==
    [op |-> "none", pc |-> "idle", content |-> None, before |-> <<>>,
     relevant_memories |-> <<>>, response |-> "none", recall |-> "none", calls |-> <<>>,
     definitions |-> 0, result |-> "none"]

\* a CompletionAgent that has not been called, its vector store empty
AgentIdle == [memory_storage |-> <<>>, use_tools |-> TRUE, call |-> [c \in Callers |-> NoCall]]

-----------------------------------------------------------------------------
(* SystemPromptBuilder with all its sections, SystemPromptBuilder::build and
   SystemPrompt::new.  A text is a sequence of tokens, a token is a word or one of the
   four placeholders; str::replace on a placeholder rewrites the tokens equal to it.
   Times are in whole seconds. *)

MaxSetters == 2
MaxList == 1
MaxWindow == 45

Placeholders == {"{user}", "{bot}", "{time}", "{time_since}"}
Plain == <<"words">>
Templated == <<"{user}", "{bot}", "{time}", "{time_since}">>
Texts == {Plain, Templated}
TextLists == UNION {[1..n -> Texts] : n \in 0..MaxList}

\* the clock reading of Utc::now() inside build: late enough for a message two days old
Now == 2 * 86400 + MaxWindow

\* prompt.rs:277-303
SystemPromptBuilderNewNamed(chatbot_name, user_name, about, max_ltm, max_stm) ==
    [chatbot_name |-> chatbot_name, user_name |-> user_name, about |-> about,
     max_ltm |-> max_ltm, max_stm |-> max_stm,
     tone |-> None, age |-> None, likes |-> None, dislikes |-> None, history |-> None,
     conversation_goals |-> None, conversational_examples |-> None, context |-> None,
     long_term_memory |-> None, user_about |-> None, timezone |-> None, language |-> None]

\* add_like / add_likes and their like (prompt.rs:315-403): push or extend a present
\* list, otherwise the list becomes the new items
Extend(opt, items) == IF opt.some THEN Some(opt.v \o items) ELSE Some(items)

\* the number of optional sections a builder holds, which bounds the setter calls
Held(opt) == IF opt.some THEN 1 ELSE 0
Size(b) ==
    Held(b.tone) + Held(b.age) + Held(b.history) + Held(b.user_about) + Held(b.timezone)
    + Held(b.language) + Held(b.likes) + Held(b.dislikes) + Held(b.conversation_goals)
    + Held(b.conversational_examples) + Held(b.context) + Held(b.long_term_memory)

PromptIdle ==
    /\ builder = SystemPromptBuilderNewNamed("Bot", "User", Plain, MaxLtm, MaxStm)
    /\ prompt = None
    /\ agent = AgentIdle

\* the single-value setters (prompt.rs:305-313, 342-345, 440-453)
SetField(field, text) ==
    /\ ~prompt.some
    /\ Size(builder) < MaxSetters
    /\ field \in {"tone", "age", "history", "user_about", "language"}
    /\ builder' = [builder EXCEPT ![field] = Some(text)]
    /\ UNCHANGED <<prompt, agent>>
    /\ UNCHANGED storeVars
    /\ UNCHANGED regVars

\* timezone (prompt.rs:445-448)
SetTimezone ==
    /\ ~prompt.some
    /\ Size(builder) < MaxSetters
    /\ builder' = [builder EXCEPT !.timezone = Some("Sao_Paulo")]
    /\ UNCHANGED <<prompt, agent>>
    /\ UNCHANGED storeVars
    /\ UNCHANGED regVars

\* the list setters, single and bulk (prompt.rs:315-403)
AddItems(field, items) ==
    /\ ~prompt.some
    /\ field \in {"likes", "dislikes", "conversation_goals", "conversational_examples", "context"}
    /\ Size(builder) < MaxSetters
    /\ ~builder[field].some
    /\ builder' = [builder EXCEPT ![field] = Extend(@, items)]
    /\ UNCHANGED <<prompt, agent>>
    /\ UNCHANGED storeVars
    /\ UNCHANGED regVars

\* add_long_term_memories on this builder (prompt.rs:420-439)
AddMemories(items) ==
    /\ ~prompt.some
    /\ Size(builder) < MaxSetters
    /\ ~builder.long_term_memory.some
    /\ LET r == AddLongTermMemoriesFn(builder, items) IN
       /\ ~r.panic
       /\ builder' = r.builder
    /\ UNCHANGED <<prompt, agent>>
    /\ UNCHANGED storeVars
    /\ UNCHANGED regVars

-----------------------------------------------------------------------------
(* build: the elapsed-time phrase (prompt.rs:468-497) *)

\* chrono: num_seconds / num_minutes / num_hours / num_days round toward zero
TruncDiv(a, b) == IF a >= 0 THEN a \div b ELSE 0 - ((0 - a) \div b)

\* DateTime::signed_duration_since(rhs): self - rhs
SignedDurationSince(self, rhs) == self - rhs

Suffix(n) == IF n > 1 THEN "s" ELSE ""
Phrase(n, unit) == ToString(n) \o " " \o unit \o Suffix(n)

\* prompt.rs:470-497: last_message_time.signed_duration_since(Utc::now()), then the
\* match on its number of seconds
TimeSince(last_message_time, now) ==
    LET secs == SignedDurationSince(last_message_time, now) IN
    IF secs >= 0 /\ secs <= 59 THEN Phrase(secs, "second")
    ELSE IF secs >= 60 /\ secs <= 3599 THEN Phrase(TruncDiv(secs, 60), "minute")
    ELSE IF secs >= 3600 /\ secs <= 86399 THEN Phrase(TruncDiv(secs, 3600), "hour")
    ELSE Phrase(TruncDiv(secs, 86400), "day")

\* prompt.rs:461-468: the time of the render, in the builder's timezone if it has one
TimeOf(b) == IF b.timezone.some THEN "now in " \o b.timezone.v ELSE "now in UTC"

-----------------------------------------------------------------------------
(* build: the placeholders (prompt.rs:499-638) *)

\* str::replace(from, to)
Replace(text, from, to) ==
    [i \in 1..Len(text) |-> IF text[i] = from THEN to ELSE text[i]]

\* the chain of four replace calls applied to one text
Substitute(text, b, time, time_since) ==
    Replace(Replace(Replace(Replace(text, "{user}", b.user_name),
                            "{bot}", b.chatbot_name),
                    "{time}", time),
            "{time_since}", time_since)

SubstituteText(opt, b, time, time_since) ==
    IF opt.some THEN Some(Substitute(opt.v, b, time, time_since)) ELSE None

SubstituteList(opt, b, time, time_since) ==
    IF opt.some
    THEN Some([i \in 1..Len(opt.v) |-> Substitute(opt.v[i], b, time, time_since)])
    ELSE None

\* prompt.rs:499-636: the sections build rewrites; about is not among them
SubstituteAll(b, time, time_since) ==
    [b EXCEPT
        !.tone = SubstituteText(@, b, time, time_since),
        !.age = SubstituteText(@, b, time, time_since),
        !.likes = SubstituteList(@, b, time, time_since),
        !.dislikes = SubstituteList(@, b, time, time_since),
        !.history = SubstituteText(@, b, time, time_since),
        !.conversation_goals = SubstituteList(@, b, time, time_since),
        !.conversational_examples = SubstituteList(@, b, time, time_since),
        !.context = SubstituteList(@, b, time, time_since),
        !.long_term_memory = SubstituteList(@, b, time, time_since),
        !.user_about = SubstituteText(@, b, time, time_since),
        !.language = SubstituteText(@, b, time, time_since)]

-----------------------------------------------------------------------------
(* SystemPrompt::new (prompt.rs:22-230): the prompt as its sequence of sections, each
   a header and the texts under it *)

Section(header, body) == [header |-> header, body |-> body]
When(cond, section) == IF cond THEN <<section>> ELSE <<>>

\* prompt.rs:183-184: the long-term-memory section needs a list that is not empty
LtmShownWhenSome(opt) == opt.some
LtmShown(opt) == opt.some /\ Len(opt.v) > 0

\* prompt.rs:91, 105, 129, 143, 163: the other list sections need only a list
ListShown(opt) == opt.some

SystemPromptNew(b, recalling) ==
    <<Section("# Role", <<<<b.chatbot_name>>>>),
      Section("## System Notes",
              <<<<b.chatbot_name>>>> \o (IF recalling THEN <<<<"memory_recall">>>> ELSE <<>>)),
      Section("## People in conversation", <<<<b.chatbot_name>>, <<b.user_name>>>>),
      Section("## Task", <<<<b.user_name>>>>)>>
    \o When(b.language.some, Section("## Language", <<b.language.v>>))
    \o <<Section("## About", <<b.about>>)>>
    \o When(b.tone.some, Section("## Tone", <<b.tone.v>>))
    \o When(b.age.some, Section("## Age", <<b.age.v>>))
    \o When(ListShown(b.likes), Section("## Likes", b.likes.v))
    \o When(ListShown(b.dislikes), Section("## Dislikes", b.dislikes.v))
    \o When(b.history.some, Section("## History", <<b.history.v>>))
    \o When(ListShown(b.conversation_goals),
            Section("## Conversation Goals", b.conversation_goals.v))
    \o When(ListShown(b.conversational_examples),
            Section("## Conversational Examples", b.conversational_examples.v))
    \o When(ListShown(b.context), Section("## Context", b.context.v))
    \o When(LtmShown(b.long_term_memory), Section("## Long Term Memory", b.long_term_memory.v))
    \o When(b.user_about.some, Section("## User's About", <<b.user_about.v>>))

\* prompt.rs:456-640
BuildFn(b, last_message_time, now, recalling) ==
    LET time == TimeOf(b)
        time_since == TimeSince(last_message_time, now)
        substituted == SubstituteAll(b, time, time_since)
    IN [inner |-> SystemPromptNew(substituted, recalling), builder |-> substituted,
        last_message_time |-> last_message_time, now |-> now, time_since |-> time_since]

\* build takes the builder by value (prompt.rs:456, `mut self`): the built prompt holds
\* the substituted builder (prompt.rs:225-228), `builder` keeps what was handed over
Build(last_message_time, recalling) ==
    /\ ~prompt.some
    /\ prompt' = Some(BuildFn(builder, last_message_time, Now, recalling))
    /\ UNCHANGED <<builder, agent>>
    /\ UNCHANGED storeVars
    /\ UNCHANGED regVars

\* SystemPrompt::rebuild(self, recalling) (prompt.rs:240-242): Self::new on the builder
\* the prompt holds, which is the substituted one; no time is read and nothing is
\* substituted again
Rebuild(recalling) ==
    /\ prompt.some
    /\ prompt' = Some([prompt.v EXCEPT !.inner = SystemPromptNew(prompt.v.builder, recalling)])
    /\ UNCHANGED <<builder, agent>>
    /\ UNCHANGED storeVars
    /\ UNCHANGED regVars

\* SystemPrompt::into_builder(self) (prompt.rs:232-234): the prompt is consumed and
\* gives back the builder it holds, with the substituted texts; setters and build
\* run on it again
IntoBuilder ==
    /\ prompt.some
    /\ builder' = prompt.v.builder
    /\ prompt' = None
    /\ UNCHANGED agent
    /\ UNCHANGED storeVars
    /\ UNCHANGED regVars

-----------------------------------------------------------------------------
(* get_context and its two wrappers on a session that holds its full builder
   (ChatContext.system_prompt), with the render they make *)

\* context.rs:85-88 and 127-130, `self.system_prompt.clone().build(..)`: build takes its
\* receiver by value (prompt.rs:456, `mut self`), so the substitutions rewrite the copy,
\* which is consumed; the session's builder is the one the call found
CloneBuildInPlace(b, last_message_time, now, recalling) ==
    [system_prompt |-> BuildFn(b, last_message_time, now, recalling).builder,
     rendered |-> BuildFn(b, last_message_time, now, recalling)]
CloneBuild(b, last_message_time, now, recalling) ==
    [system_prompt |-> b,
     rendered |-> BuildFn(b, last_message_time, now, recalling)]

AssembleKinds == {"get_context", "get_regen_context", "freewill_context"}

\* get_context (context.rs:78-143), get_regen_context (146-163) and freewill_context
\* (165-186) with the session's builder in `builder`.  sent_at is the time of the last
\* Variant of the store (context.rs:110); an empty store renders with the current time
\* (context.rs:83)
Assemble(kind, sent_at, recalling) ==
    /\ ~aborted
    /\ kind \in AssembleKinds
    /\ LET r == GetContextFn(messages, builder.max_stm)
           last_message_time == IF IsEmpty(messages) THEN Now ELSE sent_at
           c == CloneBuild(builder, last_message_time, Now, recalling)
           message == ChatMessage("user", clock + 1)
       IN /\ builder' = c.system_prompt
          /\ prompt' = Some(c.rendered)
          /\ IF kind = "get_context"
             THEN /\ messages' = r.messages
                  /\ last' = Observe(kind, 0, "Ok", 0, "", r.context, r.drained)
                  /\ UNCHANGED clock
             ELSE IF kind = "get_regen_context"
             THEN /\ messages' = r.messages
                  /\ last' = Observe(kind, 0, "Ok", 0, "",
                                     RemoveLastAssistant(r.context), r.drained)
                  /\ UNCHANGED clock
             ELSE IF TimeSinceLastFails(r.messages)
             THEN /\ messages' = r.messages
                  /\ last' = Observe(kind, 0, "EmptyContext", 0, "", <<>>, None)
                  /\ UNCHANGED clock
             ELSE /\ clock < MaxClock
                  /\ messages' = FreewillRecord(r.messages, message)
                  /\ last' = Observe(kind, FreshId, "Ok", message.content, "",
                                     Append(r.context, message), r.drained)
                  /\ clock' = clock + 1
    /\ scenario' = NoScenario
    /\ regen' = NoRegen
    /\ UNCHANGED <<system_prompt, aborted, lastLtm, agent>>
    /\ UNCHANGED regVars

-----------------------------------------------------------------------------
(* CompletionAgent (agent.rs): rag_recall, completion and store against the embedding
   model, the completion model, the tools and the vector store.  A call is made in a
   slot of agent.call and advances from one await to the next; `calls` lists the
   collaborators it has called so far, in order; an outcome of a collaborator is an
   input of the step at which its call returns. *)

MaxStored == 2
SearchLimit == 5

\* a stored memory, with the tags summarize asks for
MemoryText == <<"<user>", "likes", "<assistant>">>
Contents == {None, Some(""), Some("query")}

\* agent.rs:109-111: the tools the agent owns; a reply may name any tool
Tools == {"memory_recall", "memory_store"}
ToolNames == Tools \cup {"other"}

\* agent.rs:297-301: whether rag_recall has a query to embed
HasQuery(content) == content.some

\* agent.rs:318-325: the tags of a recalled memory are replaced by the two names
Untag(text) == Replace(Replace(text, "<user>", "User"), "<assistant>", "Bot")

\* agent.rs:315-318: search returns at most SearchLimit of the stored memories
Founds(storage) == 0..Min(SearchLimit, Len(storage))

\* a slot takes a new call when none is in progress in it
Free(c) == agent.call[c].pc \in {"idle", "done"}
At(c, pc) == agent.call[c].pc = pc
StartOf(op, content, memories) ==
    [NoCall EXCEPT !.op = op, !.content = content, !.before = memories,
                   !.relevant_memories = memories]
Calling(r, name) == [r EXCEPT !.calls = Append(@, name), !.pc = name]
Done(r, result) == [r EXCEPT !.result = result, !.pc = "done"]
Put(c, r) == agent' = [agent EXCEPT !.call[c] = r]

\* agent.rs:225: the request is sent to the completion model
Request(r) == Calling(r, "completion")

\* agent.rs:152-163 and agent.rs:279-286: with use_tools, tool_definitions awaits the
\* definition of every tool before the request is made
AfterRecall(r) ==
    IF agent.use_tools
    THEN [r EXCEPT !.definitions = Cardinality(Tools), !.pc = "definition"]
    ELSE Request(r)

\* agent.rs:296-308: rag_recall up to its first await; without a content it returns
RecallStart(r) ==
    IF HasQuery(r.content)
    THEN Calling(r, "embed_text")
    ELSE [r EXCEPT !.recall = "Ok"]

\* agent.rs:296-308, called on its own
RagRecall(c, content, memories) ==
    /\ Free(c)
    /\ LET r == RecallStart(StartOf("rag_recall", content, memories)) IN
       Put(c, IF r.recall = "Ok" THEN Done(r, "Ok") ELSE r)
    /\ UNCHANGED <<builder, prompt>>
    /\ UNCHANGED storeVars
    /\ UNCHANGED regVars

\* agent.rs:136: self.rag_recall(&mut prompt).await? ; a failed recall ends completion
RecallFailureReturned(r) == r.recall = "Err"

\* agent.rs:129-136: completion begins with the recall
Completion(c, content, memories) ==
    /\ Free(c)
    /\ LET r == RecallStart(StartOf("completion", content, memories)) IN
       Put(c, IF r.recall = "Ok" THEN AfterRecall(r) ELSE r)
    /\ UNCHANGED <<builder, prompt>>
    /\ UNCHANGED storeVars
    /\ UNCHANGED regVars

\* how many store calls have still to write
Storing == Cardinality({c \in Callers : agent.call[c].op = "store" /\ ~Free(c)})

\* agent.rs:335-341 and agent.rs:460: store begins with summarize, which sends its
\* request to the completion model
Store(c) ==
    /\ Free(c)
    /\ Len(agent.memory_storage) + Storing < MaxStored
    /\ Put(c, Request(StartOf("store", None, <<>>)))
    /\ UNCHANGED <<builder, prompt>>
    /\ UNCHANGED storeVars
    /\ UNCHANGED regVars

\* the recall of a call has ended: rag_recall returns, completion returns the error
\* (`?` at agent.rs:136) or goes on
Recalled(r) ==
    IF r.op = "rag_recall" THEN Done(r, r.recall)
    ELSE IF RecallFailureReturned(r) THEN Done(r, "Err")
    ELSE AfterRecall(r)

\* agent.rs:308 and agent.rs:345: embed_text returns; rag_recall goes on to the search,
\* store to the write
EmbedText(c, embedOk) ==
    /\ At(c, "embed_text")
    /\ LET r == agent.call[c] IN
       Put(c, IF r.op = "store"
              THEN IF embedOk THEN Calling(r, "store") ELSE Done(r, "Err")
              ELSE IF embedOk THEN Calling(r, "search")
                   ELSE Recalled([r EXCEPT !.recall = "Err"]))
    /\ UNCHANGED <<builder, prompt>>
    /\ UNCHANGED storeVars
    /\ UNCHANGED regVars

\* agent.rs:318-332: search returns found memories of the vector store as it is now;
\* they are appended to the prompt's relevant memories
Search(c, searchOk, found) ==
    /\ At(c, "search")
    /\ found \in Founds(agent.memory_storage)
    /\ LET r == agent.call[c]
           recalled == [i \in 1..found |-> Untag(agent.memory_storage[i])]
       IN Put(c, IF searchOk
                 THEN Recalled([r EXCEPT !.recall = "Ok",
                                         !.relevant_memories =
                                            IF Len(recalled) > 0 THEN @ \o recalled ELSE @])
                 ELSE Recalled([r EXCEPT !.recall = "Err"]))
    /\ UNCHANGED <<builder, prompt>>
    /\ UNCHANGED storeVars
    /\ UNCHANGED regVars

\* agent.rs:282: one tool.definition(..).await returns; after the last the request is
\* sent
Definition(c) ==
    /\ At(c, "definition")
    /\ LET r == [agent.call[c] EXCEPT !.definitions = @ - 1] IN
       Put(c, IF r.definitions = 0 THEN Request(r) ELSE r)
    /\ UNCHANGED <<builder, prompt>>
    /\ UNCHANGED storeVars
    /\ UNCHANGED regVars

\* agent.rs:460-466: summarize returns the text of the reply; a failed call and a
\* reply that is not text are errors
SummarizeAnyReply(response) == response # "Err"
SummarizeOk(response) == response = "Text"

\* agent.rs:288-294: call_tool calls a tool the agent owns and returns an error, with
\* no call, for any other name
ToolOwned(name) == name \in Tools

\* agent.rs:225-275 and agent.rs:460-466: the completion model returns.  response is
\* "Text", "ToolCall" (of the tool name) or "Err".  In completion a text is the result
\* and a tool call calls the tool; in store (summarize) a text is embedded
CompletionReturn(c, response, name) ==
    /\ At(c, "completion")
    /\ LET r == [agent.call[c] EXCEPT !.response = response] IN
       Put(c, IF r.op = "store"
              THEN IF SummarizeOk(response) THEN Calling(r, "embed_text")
                   ELSE Done(r, "Err")
              ELSE IF response = "Err" THEN Done(r, "Err")
              ELSE IF response = "Text" THEN Done(r, "Ok")
              ELSE IF ToolOwned(name) THEN Calling(r, "tool")
              ELSE Done(r, "Err"))
    /\ UNCHANGED <<builder, prompt>>
    /\ UNCHANGED storeVars
    /\ UNCHANGED regVars

\* agent.rs:261 and agent.rs:290: the tool returns; its error is the call's
ToolReturn(c, toolOk) ==
    /\ At(c, "tool")
    /\ Put(c, Done(agent.call[c], IF toolOk THEN "Ok" ELSE "Err"))
    /\ UNCHANGED <<builder, prompt>>
    /\ UNCHANGED storeVars
    /\ UNCHANGED regVars

\* agent.rs:348-350: memory_storage.store returns; its result is the call's
StoreReturn(c, storeOk) ==
    /\ At(c, "store")
    /\ agent' = [agent EXCEPT
                    !.call[c] = Done(@, IF storeOk THEN "Ok" ELSE "Err"),
                    !.memory_storage = IF storeOk THEN Append(@, MemoryText) ELSE @]
    /\ UNCHANGED <<builder, prompt>>
    /\ UNCHANGED storeVars
    /\ UNCHANGED regVars

-----------------------------------------------------------------------------
(* Specifications *)

\* one user's session, from its creation: Branch Store operations
Init ==
    /\ messages = ChatContextNew
    /\ system_prompt \in {SystemPromptBuilderNew(MaxLtm, s) : s \in 0..MaxStm}
    /\ clock = 0
    /\ aborted = FALSE
    /\ last = NoOp
    /\ regen = NoRegen
    /\ scenario = NoScenario
    /\ lastLtm = NoLtm
    /\ RegistryOf([u \in Users |-> IF u = SessionUser THEN ChatEngineNew(0) ELSE Absent])
    /\ PromptIdle

\* every operation on the session is made by a handler that holds user_map, so it
\* starts when no prev and no clear is inside its own
Next ==
    \/ SessionIdle /\ \E role \in Roles, id \in Ids : AddMessage(role, id)
    \/ SessionIdle /\ \E id \in Ids, editOk \in BOOLEAN : NextButton(id, editOk)
    \/ SessionIdle /\ \E id \in Ids : Regenerate(id)
    \/ SessionIdle /\ GetContext
    \/ SessionIdle /\ GetRegenContext
    \/ SessionIdle /\ FreewillContext
    \/ Prev
    \/ Clear

Spec == Init /\ [][Next]_vars

\* a builder with no long-term-memory list, for every max_ltm: the bulk and single adds
InitLtm ==
    /\ messages = ChatContextNew
    /\ system_prompt \in {SystemPromptBuilderNew(l, MaxStm) : l \in 0..MaxLtm}
    /\ clock = 0
    /\ aborted = FALSE
    /\ last = NoOp
    /\ regen = NoRegen
    /\ scenario = NoScenario
    /\ lastLtm = NoLtm
    /\ RegistryIdle
    /\ PromptIdle

NextLtm ==
    \/ AddLongTermMemory
    \/ \E n \in 0..MaxBatch : AddLongTermMemories(n)

SpecLtm == InitLtm /\ [][NextLtm]_vars

\* the Session Registry with its handler tasks; a user starts without a session or
\* with a session that has been used, and the platform before its first ready event
\* or with the context of one stored
InitReg ==
    /\ messages = ChatContextNew
    /\ system_prompt = SystemPromptBuilderNew(MaxLtm, MaxStm)
    /\ clock = 0
    /\ aborted = FALSE
    /\ last = NoOp
    /\ regen = NoRegen
    /\ scenario = NoScenario
    /\ lastLtm = NoLtm
    /\ user_map \in [Users -> {Absent, ChatEngineUsed}]
    /\ freewill_map = [u \in Users |-> 0]
    /\ handles = [spawned |-> 0, aborted |-> {}]
    /\ config = [memory |-> 0, file |-> 0]
    /\ platform \in {PlatformIdle, PlatformReady}
    /\ locks = LocksFree
    /\ tasks = [t \in 1..ShutdownTask |-> IdleTask]
    /\ shutdown = ShutdownIdle
    /\ PromptIdle

NextReg ==
    \/ \E kind \in {"prev", "clear", "turn"}, u \in Users : Spawn(kind, u)
    \/ ConfigEdit
    \/ Signal
    \/ \E t \in TaskIds : PrevAcquireUserMap(t)
    \/ \E t \in TaskIds : PrevConfigUpdate(t)
    \/ \E t \in TaskIds : PrevEntry(t)
    \/ \E t \in TaskIds : PrevEdit(t)
    \/ \E t \in TaskIds : ClearAcquireUserMap(t)
    \/ \E t \in TaskIds : ClearConfigUpdate(t)
    \/ \E t \in TaskIds : ClearConfigRead(t)
    \/ \E t \in TaskIds : ClearBuild(t)
    \/ \E t \in TaskIds : ClearEntry(t)
    \/ \E t \in TaskIds : ClearNudge(t)
    \/ \E t \in TaskIds : ClearSend(t)
    \/ \E t \in TaskIds : TurnAcquireUserMap(t)
    \/ \E t \in TaskIds : TurnAcquireEngine(t)
    \/ \E t \in TaskIds : TurnAppend(t)
    \/ \E t \in TaskIds : TurnReply(t)
    \/ ShutdownAcquireUserMap
    \/ ShutdownAcquireContext
    \/ \E u \in Users : ShutdownAcquireEngine(u)
    \/ \E ok \in BOOLEAN, n \in 0..MaxIdentifiers : ShutdownEngine(ok, n)
    \/ \E fetched \in BOOLEAN : ShutdownToMessage(fetched)
    \/ ShutdownOffline
    \/ \E ok \in BOOLEAN : ShutdownDisableButtons(ok)
    \/ ShutdownDisable

SpecReg == InitReg /\ [][NextReg]_vars

\* prev, clear and shutdown contending for the locks, with the ready events of the
\* platform, from before the first of them.  A task that can take
\* its next step eventually takes it: the runtime polls every woken task, an outbound
\* call returns, and a guard is dropped when its handler returns
PrevStep(t) ==
    \/ PrevAcquireUserMap(t)
    \/ PrevConfigUpdate(t)
    \/ PrevEntry(t)
    \/ PrevEdit(t)

ClearStep(t) ==
    \/ ClearAcquireUserMap(t)
    \/ ClearConfigUpdate(t)
    \/ ClearConfigRead(t)
    \/ ClearBuild(t)
    \/ ClearEntry(t)
    \/ ClearNudge(t)
    \/ ClearSend(t)

ShutdownStep ==
    \/ ShutdownAcquireUserMap
    \/ ShutdownAcquireContext
    \/ \E u \in Users : ShutdownAcquireEngine(u)
    \/ \E ok \in BOOLEAN, n \in 0..MaxIdentifiers : ShutdownEngine(ok, n)
    \/ \E fetched \in BOOLEAN : ShutdownToMessage(fetched)
    \/ ShutdownOffline
    \/ \E ok \in BOOLEAN : ShutdownDisableButtons(ok)
    \/ ShutdownDisable

NextLock ==
    \/ \E kind \in {"prev", "clear"}, u \in Users : Spawn(kind, u)
    \/ ReadyPresence
    \/ ReadyStore
    \/ Signal
    \/ \E t \in TaskIds : PrevStep(t)
    \/ \E t \in TaskIds : ClearStep(t)
    \/ ShutdownStep

FairLock ==
    /\ \A t \in TaskIds : WF_vars(PrevStep(t)) /\ WF_vars(ClearStep(t))
    /\ WF_vars(ShutdownStep)
    /\ WF_vars(ReadyStore)

InitLock == InitReg /\ platform = PlatformIdle

SpecLock == InitLock /\ [][NextLock]_vars /\ FairLock

\* one build of an otherwise empty builder, for the last message times within
\* MaxWindow seconds of the values where the phrase changes its unit or its number,
\* before the clock reading and after it
Marks == {0, 60, 120, 3600, 5400, 7200, 86400, 90000, 172800}
Elapsed == UNION {{d \in (m - MaxWindow)..(m + MaxWindow) : d >= 0 /\ d <= Now} : m \in Marks}
TimeRange == {Now - d : d \in Elapsed} \cup {Now + d : d \in Elapsed}

InitTime ==
    /\ messages = ChatContextNew
    /\ system_prompt = SystemPromptBuilderNew(MaxLtm, MaxStm)
    /\ clock = 0
    /\ aborted = FALSE
    /\ last = NoOp
    /\ regen = NoRegen
    /\ scenario = NoScenario
    /\ lastLtm = NoLtm
    /\ RegistryIdle
    /\ PromptIdle

NextTime ==
    \/ \E t \in TimeRange : Build(t, FALSE)
    \/ \E recalling \in BOOLEAN : Rebuild(recalling)
    \/ IntoBuilder

SpecTime == InitTime /\ [][NextTime]_vars

\* a builder filled in by its setters and built; the prompt is rebuilt or gives its
\* builder back to be filled in and built again
InitRender ==
    /\ messages = ChatContextNew
    /\ system_prompt = SystemPromptBuilderNew(MaxLtm, MaxStm)
    /\ clock = 0
    /\ aborted = FALSE
    /\ last = NoOp
    /\ regen = NoRegen
    /\ scenario = NoScenario
    /\ lastLtm = NoLtm
    /\ RegistryIdle
    /\ builder \in {SystemPromptBuilderNewNamed("Bot", "User", about, MaxLtm, MaxStm) :
                       about \in Texts}
    /\ prompt = None
    /\ agent = AgentIdle

NextRender ==
    \/ \E field \in {"tone", "age", "history", "user_about", "language"}, text \in Texts :
          SetField(field, text)
    \/ SetTimezone
    \/ \E field \in {"likes", "dislikes", "conversation_goals",
                     "conversational_examples", "context"}, items \in TextLists :
          AddItems(field, items)
    \/ \E items \in TextLists : AddMemories(items)
    \/ \E t \in {Now - 90, Now}, recalling \in BOOLEAN : Build(t, recalling)
    \/ \E recalling \in BOOLEAN : Rebuild(recalling)
    \/ IntoBuilder

SpecRender == InitRender /\ [][NextRender]_vars

\* a session: its builder is filled in from the configuration, then messages are
\* added and contexts assembled
InitAssemble ==
    /\ messages = ChatContextNew
    /\ system_prompt = SystemPromptBuilderNew(MaxLtm, MaxStm)
    /\ clock = 0
    /\ aborted = FALSE
    /\ last = NoOp
    /\ regen = NoRegen
    /\ scenario = NoScenario
    /\ lastLtm = NoLtm
    /\ RegistryIdle
    /\ builder \in {SystemPromptBuilderNewNamed("Bot", "User", Plain, MaxLtm, s) :
                       s \in 0..MaxStm}
    /\ prompt = None
    /\ agent = AgentIdle

\* each message arrives under a new platform id
NextAssemble ==
    \/ \E field \in {"tone", "language"}, text \in Texts : SetField(field, text)
    \/ \E items \in TextLists : AddMemories(items)
    \/ \E role \in Roles : clock < MaxId /\ AddMessage(role, clock + 1)
    \/ \E kind \in AssembleKinds, recalling \in BOOLEAN :
          Assemble(kind, Now - 90, recalling)

SpecAssemble == InitAssemble /\ [][NextAssemble]_vars

\* a CompletionAgent and its vector store
InitAgent ==
    /\ messages = ChatContextNew
    /\ system_prompt = SystemPromptBuilderNew(MaxLtm, MaxStm)
    /\ clock = 0
    /\ aborted = FALSE
    /\ last = NoOp
    /\ regen = NoRegen
    /\ scenario = NoScenario
    /\ lastLtm = NoLtm
    /\ RegistryIdle
    /\ builder = SystemPromptBuilderNewNamed("Bot", "User", Plain, MaxLtm, MaxStm)
    /\ prompt = None
    /\ agent \in {[AgentIdle EXCEPT !.use_tools = b] : b \in BOOLEAN}

NextAgent ==
    \/ \E c \in Callers, content \in Contents, memories \in {<<>>, <<Plain>>} :
          RagRecall(c, content, memories)
    \/ \E c \in Callers, content \in Contents, memories \in {<<>>, <<Plain>>} :
          Completion(c, content, memories)
    \/ \E c \in Callers : Store(c)
    \/ \E c \in Callers, embedOk \in BOOLEAN : EmbedText(c, embedOk)
    \/ \E c \in Callers, searchOk \in BOOLEAN, found \in 0..SearchLimit :
          Search(c, searchOk, found)
    \/ \E c \in Callers : Definition(c)
    \/ \E c \in Callers, response \in {"Text", "ToolCall", "Err"}, name \in ToolNames :
          CompletionReturn(c, response, name)
    \/ \E c \in Callers, toolOk \in BOOLEAN : ToolReturn(c, toolOk)
    \/ \E c \in Callers, storeOk \in BOOLEAN : StoreReturn(c, storeOk)

SpecAgent == InitAgent /\ [][NextAgent]_vars

-----------------------------------------------------------------------------
(* Properties of the Branch Store *)

SlotOf(map, id) == map[IndexOf(map, id)]

Floor80(max_stm) == (4 * max_stm) \div 5

\* C1: in every reachable state every Slot has at least one Variant and its cursor
\* lies in 0 .. variants.len()-1, whatever append, prev, next, regenerate, assemble
\* and clear operations were run.
C1_CursorInRange ==
    \A i \in 1..Len(messages) :
        /\ Len(messages[i].messages) >= 1
        /\ messages[i].selected >= 0
        /\ messages[i].selected <= Len(messages[i].messages) - 1

\* a prev press has just moved a cursor onto the lower end of a Slot with several Variants
C1_Witness ==
    /\ last.op = "prev" /\ last.res = "Ok"
    /\ IndexOf(messages, last.id) # 0
    /\ SlotOf(messages, last.id).selected = 0
    /\ Len(SlotOf(messages, last.id).messages) >= 2

\* C2: assemble on a non-empty store with len >= max_stm removes exactly the
\* len - floor(max_stm*4/5) oldest Slots, leaves exactly floor(max_stm*4/5) Slots (the
\* newest, untouched), and returns the removed Slots' selected Variants in insertion
\* order; with max_stm = 50 and 60 Slots that is 20 evicted and 40 left.
C2_AssembleEvictsOldest ==
    [][ (last'.op = "get_context" /\ Len(messages) > 0
            /\ Len(messages) >= system_prompt.max_stm)
        => LET n == Len(messages) - Floor80(system_prompt.max_stm) IN
           /\ Len(messages') = Floor80(system_prompt.max_stm)
           /\ Len(messages) - Len(messages') = n
           /\ \A j \in 1..Len(messages') : messages'[j] = messages[n + j]
           /\ last'.drained.some
           /\ Len(last'.drained.v) = n
           /\ \A j \in 1..n :
                last'.drained.v[j] = messages[j].messages[messages[j].selected + 1]
           /\ ToRemove(60, 50) = 20 /\ 60 - ToRemove(60, 50) = 40 ]_vars

\* an assemble that evicted two Slots and left at least one
C2_Witness ==
    /\ last.op = "get_context"
    /\ last.drained.some
    /\ Len(last.drained.v) >= 2
    /\ Len(messages) >= 1

\* C3: prev on a Slot whose cursor is 0 is refused with AtStart and changes nothing;
\* on a Slot whose cursor is c > 0 it moves the cursor to c-1, keeps the Variants and
\* yields the Variant at index c-1, which is what the press returns whether or not the
\* edit of the displayed message then succeeds; no other step of the handler touches
\* the store.
C3_SelectPrev ==
    [][ /\ (last'.op = "prev" /\ tasks[SessionTask].pc = "updated"
               /\ IndexOf(messages, last'.id) # 0)
           => LET i == IndexOf(messages, last'.id)
                  c == messages[i].selected
              IN IF c = 0
                 THEN last'.res = "AtStart" /\ messages' = messages
                 ELSE /\ last'.res = "Moved"
                      /\ messages'[i].selected = c - 1
                      /\ messages'[i].messages = messages[i].messages
                      /\ messages'[i].id = messages[i].id
                      /\ last'.content = messages[i].messages[c].content
                      /\ \A j \in 1..Len(messages) : j # i => messages'[j] = messages[j]
                      /\ Len(messages') = Len(messages)
        /\ (last'.op = "prev" /\ tasks[SessionTask].pc # "updated")
           => messages' = messages
        /\ (last'.op = "prev" /\ last'.res \in {"Ok", "EditFailed"})
           => /\ last.res = "Moved"
              /\ last'.id = last.id
              /\ last'.content = last.content ]_vars

\* a prev press refused with AtStart on a Slot an earlier prev had walked back to 0
C3_Witness ==
    /\ last.op = "prev" /\ last.res = "AtStart"
    /\ IndexOf(messages, last.id) # 0
    /\ Len(SlotOf(messages, last.id).messages) >= 2
    /\ SlotOf(messages, last.id).selected = 0

\* C4: next on a Slot whose cursor is the last index is refused with AtEnd and leaves
\* the cursor where it is; otherwise it moves the cursor on by exactly one.  The
\* forward label the prev handler reads after its move says "next" exactly when the
\* cursor is below the last index.
C4_SelectNext ==
    [][ /\ (last'.op = "next" /\ IndexOf(messages, last'.id) # 0)
           => LET i == IndexOf(messages, last'.id)
                  c == messages[i].selected
              IN IF c = Len(messages[i].messages) - 1
                 THEN last'.res = "AtEnd" /\ messages' = messages
                 ELSE /\ last'.res \in {"Ok", "EditFailed"}
                      /\ messages'[i].selected = c + 1
                      /\ messages'[i].messages = messages[i].messages
        /\ (last'.op = "prev" /\ last'.res \in {"Moved", "Ok", "EditFailed"})
           => LET m == SlotOf(messages', last'.id) IN
              (last'.can_go_fwd = "next") <=> (m.selected < Len(m.messages) - 1) ]_vars

\* a next press refused with AtEnd on a Slot with several Variants
C4_Witness ==
    /\ last.op = "next" /\ last.res = "AtEnd"
    /\ IndexOf(messages, last.id) # 0
    /\ Len(SlotOf(messages, last.id).messages) >= 2

\* C5: append under an id already in the store adds the Variant to that Slot (earlier
\* Variants kept in order, one more Variant, cursor on the new last index); append
\* under an unseen id creates a Slot with exactly one Variant and cursor 0.
C5_AppendKeepsVariants ==
    [][ last'.op = "add_message"
        => LET i == IndexOf(messages, last'.id)
               v == ChatMessage(SlotOf(messages', last'.id).messages[
                        Len(SlotOf(messages', last'.id).messages)].role, last'.content)
           IN IF i # 0
              THEN /\ messages'[i].messages = Append(messages[i].messages, v)
                   /\ messages'[i].selected = Len(messages[i].messages)
              ELSE /\ Len(messages') = Len(messages) + 1
                   /\ messages'[Len(messages')].messages = <<v>>
                   /\ messages'[Len(messages')].selected = 0 ]_vars

\* C6: K regenerations in a row on one Slot leave it with original_len + K Variants,
\* the original ones unchanged at the front, and the cursor on the newest Variant.
C6_RegenerateAppends ==
    regen.k > 0 =>
        /\ IndexOf(messages, regen.id) # 0
        /\ LET m == SlotOf(messages, regen.id) IN
           /\ Len(m.messages) = Len(regen.orig) + regen.k
           /\ SubSeq(m.messages, 1, Len(regen.orig)) = regen.orig
           /\ m.selected = Len(m.messages) - 1
           /\ MessagesSelected(m).content = clock

\* two regenerations in a row on one Slot
C6_Witness == regen.k >= 2 /\ last.op = "regenerate"

\* C7: after a first reply R1 and one regenerate giving R2 on the same Slot, prev
\* succeeds and shows R1, a first next succeeds and shows R2, and a second next is
\* refused with AtEnd with the cursor still on R2.
C7_Scenario ==
    /\ scenario.stage = 3 => last.op = "prev" /\ last.res = "Ok" /\ last.content = scenario.r1
    /\ scenario.stage = 4 => last.op = "next" /\ last.res = "Ok" /\ last.content = scenario.r2
    /\ scenario.stage = 5 =>
         /\ last.op = "next" /\ last.res = "AtEnd"
         /\ IndexOf(messages, scenario.id) # 0
         /\ MessagesSelected(SlotOf(messages, scenario.id)).content = scenario.r2

\* the scenario was played to its last press
C7_Witness == scenario.stage = 5 /\ scenario.r1 # scenario.r2

-----------------------------------------------------------------------------
(* Properties of the Context Assembler *)

\* the sequence assemble returns on a store: the system prompt, then every Slot's
\* selected Variant in insertion order
AssembledOf(map) ==
    <<SystemMessage>> \o [i \in 1..Len(map) |-> map[i].messages[map[i].selected + 1]]

\* the store assemble leaves: the newest floor(max_stm*4/5) Slots when the window was full
LeftByAssemble(map, max_stm) ==
    IF Len(map) > 0 /\ Len(map) >= max_stm
    THEN SubSeq(map, Len(map) - Floor80(max_stm) + 1, Len(map))
    ELSE map

\* the position of the last assistant-role element of a sequence, 0 when there is none
LastAssistant(seq) ==
    IF \E i \in 1..Len(seq) : seq[i].role = "assistant"
    THEN CHOOSE i \in 1..Len(seq) :
            seq[i].role = "assistant" /\ \A j \in 1..Len(seq) : seq[j].role = "assistant" => j <= i
    ELSE 0

RegenReturnsAllButLastAssistant ==
    LET base == AssembledOf(messages)
        p == LastAssistant(base)
    IN IF p = 0
       THEN last'.context = base
       ELSE /\ Len(last'.context) = Len(base) - 1
            /\ \A k \in 1..Len(last'.context) :
                 last'.context[k] = IF k < p THEN base[k] ELSE base[k + 1]

\* C11 as claimed: assemble_for_regenerate returns assemble's sequence without its last
\* assistant-role element, and the Slot holding that Variant is still in the store
\* after the call.
C11_RegenKeepsSlot ==
    [][ last'.op = "get_regen_context"
        => /\ RegenReturnsAllButLastAssistant
           /\ LastAssistant(AssembledOf(messages)) # 0
              => \E j \in 1..Len(messages') :
                    messages'[j] = messages[LastAssistant(AssembledOf(messages)) - 1] ]_vars

\* C11 as amended: assemble_for_regenerate returns assemble's sequence without its last
\* assistant-role element (nothing removed if there is none) and leaves the store as
\* assemble leaves it: the Slot holding that Variant is still in the store after the
\* call exactly when it is not one of the oldest Slots this call's eviction drained.
C11_RegenKeepsSlotUnlessEvicted ==
    [][ last'.op = "get_regen_context"
        => /\ RegenReturnsAllButLastAssistant
           /\ messages' = LeftByAssemble(messages, system_prompt.max_stm)
           /\ LET p == LastAssistant(AssembledOf(messages)) - 1
                  evicted == Len(messages) - Len(messages')
              IN p >= 1 =>
                 ((\E j \in 1..Len(messages') : messages'[j] = messages[p]) <=> p > evicted) ]_vars

\* a regenerate context that dropped an assistant reply whose Slot stayed in the store,
\* returned by a call that also evicted
C11_Witness ==
    /\ last.op = "get_regen_context"
    /\ last.drained.some /\ Len(last.drained.v) >= 1
    /\ Len(last.context) = Len(last.drained.v) + Len(messages)
    /\ \E j \in 1..Len(messages) : MessagesSelected(messages[j]).role = "assistant"

\* C12: a successful assemble_for_proactive_nudge returns assemble's sequence followed by
\* one user-role nudge Variant, and the store, as assemble leaves it, gains exactly one
\* new Slot, the latest, created without an external id, whose selected Variant is that
\* nudge.
C12_NudgeRecorded ==
    [][ (last'.op = "freewill_context" /\ last'.res = "Ok")
        => LET base == AssembledOf(messages)
               left == LeftByAssemble(messages, system_prompt.max_stm)
               nudge == last'.context[Len(last'.context)]
               slot == messages'[Len(messages')]
           IN /\ Len(last'.context) = Len(base) + 1
              /\ SubSeq(last'.context, 1, Len(base)) = base
              /\ nudge.role = "user"
              /\ Len(messages') = Len(left) + 1
              /\ SubSeq(messages', 1, Len(left)) = left
              /\ slot.messages = <<nudge>>
              /\ slot.selected = 0
              /\ slot.id \notin Ids
              /\ \A j \in 1..Len(messages) : messages[j].id # slot.id ]_vars

\* a nudge recorded by a call that also evicted
C12_Witness ==
    /\ last.op = "freewill_context" /\ last.res = "Ok"
    /\ last.drained.some /\ Len(last.drained.v) >= 1
    /\ Len(messages) >= 2

\* C13: assemble_for_proactive_nudge fails with EmptyContext exactly when the store holds
\* no Slot at the time of the call, and a failed call leaves the store unchanged.
C13_EmptyContextOnlyWhenEmpty ==
    [][ last'.op = "freewill_context"
        => /\ (last'.res = "EmptyContext") <=> (Len(messages) = 0)
           /\ last'.res = "EmptyContext" => messages' = messages ]_vars

\* the position in the store of the Slot whose selected Variant is v; one past the end
\* for a Variant of no Slot (the nudge, recorded as the next Slot)
PosOf(map, v) ==
    IF \E i \in 1..Len(map) : map[i].messages[map[i].selected + 1] = v
    THEN CHOOSE i \in 1..Len(map) : map[i].messages[map[i].selected + 1] = v
    ELSE Len(map) + 1

\* C14: for assemble, assemble_for_regenerate and assemble_for_proactive_nudge element 0
\* of the returned sequence is the one system-role rendered prompt, and the other
\* elements appear in the insertion order of their Slots.
C14_SystemFirstThenInsertionOrder ==
    [][ (last'.op \in {"get_context", "get_regen_context", "freewill_context"}
            /\ last'.res = "Ok")
        => LET c == last'.context IN
           /\ Len(c) >= 1
           /\ c[1] = SystemMessage
           /\ \A k \in 2..Len(c) : c[k].role # "system"
           /\ \A a \in 2..Len(c) : \A b \in 2..Len(c) :
                a < b => PosOf(messages, c[a]) < PosOf(messages, c[b])
           /\ \A k \in 2..Len(c) :
                PosOf(messages, c[k]) = Len(messages) + 1
                => (last'.op = "freewill_context"
                    /\ messages'[Len(messages')].messages = <<c[k]>>) ]_vars

\* an assembled sequence with the prompt and at least two Slots' Variants
C14_Witness ==
    /\ last.op \in {"get_context", "get_regen_context", "freewill_context"}
    /\ last.res = "Ok"
    /\ Len(last.context) >= 3

\* C15: assemble on an empty store returns exactly one system-role message and no
\* evicted list, and leaves the store empty, for every max_stm, 0 included.
C15_EmptyStore ==
    [][ (last'.op = "get_context" /\ Len(messages) = 0)
        => /\ last'.context = <<SystemMessage>>
           /\ ~last'.drained.some
           /\ messages' = <<>> ]_vars

\* assemble has run on an empty store with max_stm = 0
C15_Witness ==
    /\ last.op = "get_context"
    /\ Len(last.context) = 1
    /\ Len(messages) = 0
    /\ ~last.drained.some
    /\ system_prompt.max_stm = 0

\* C29: right after add_message(message, Some(id)), find(id) returns a Slot whose
\* selected Variant is that message, whether or not the id was in the store.
C29_AppendThenFind ==
    [][ last'.op = "add_message"
        => /\ Find(messages', last'.id).some
           /\ MessagesSelected(Find(messages', last'.id).v) = last'.context[1] ]_vars

\* a message was added under an id that was already in the store, before its end
C29_Witness ==
    /\ last.op = "add_message"
    /\ IndexOf(messages, last.id) # 0
    /\ IndexOf(messages, last.id) < Len(messages)
    /\ MessagesSelected(messages[IndexOf(messages, last.id)]).content = last.content

\* C30: assemble on a non-empty store evicts if and only if len >= max_stm; below
\* max_stm the store is left exactly as it was and the evicted result is None, and an
\* eviction removes at least one Slot and returns their Variants.
C30_EvictOnlyWhenFull ==
    [][ (last'.op = "get_context" /\ Len(messages) > 0)
        => /\ Len(messages) < system_prompt.max_stm =>
                 messages' = messages /\ last'.drained = None
           /\ last'.drained.some <=> Len(messages) >= system_prompt.max_stm
           /\ Len(messages') < Len(messages) <=> Len(messages) >= system_prompt.max_stm
           /\ last'.drained.some => Len(last'.drained.v) = Len(messages) - Len(messages') ]_vars

\* assemble has run on a store one Slot short of max_stm and evicted nothing
C30_Witness ==
    /\ last.op = "get_context"
    /\ ~last.drained.some
    /\ Len(messages) >= 1
    /\ Len(messages) = system_prompt.max_stm - 1

-----------------------------------------------------------------------------
(* Properties of the long-term-memory list *)

Ltm == system_prompt.long_term_memory

LastN(seq, n) == SubSeq(seq, Len(seq) - n + 1, Len(seq))

\* C8: whatever add_long_term_memory / add_long_term_memories calls are made on a
\* builder that started without a list, no call aborts and the list never holds more
\* than max_ltm facts.
C8_LtmBounded ==
    /\ ~aborted
    /\ Len(Ltm.v) <= system_prompt.max_ltm

\* C9: add_long_term_memories with a batch longer than max_ltm returns normally and
\* leaves the list exactly as it was, whether or not a list existed.
C9_OversizedBatchDeclined ==
    (lastLtm.op = "add_long_term_memories"
        /\ Len(lastLtm.batch) > system_prompt.max_ltm)
    => (~aborted /\ Ltm = lastLtm.pre)

\* C10: with an existing list e and a batch b, both no longer than max_ltm,
\* add_long_term_memories(b) leaves exactly the last min(max_ltm, len(e)+len(b))
\* elements of e ++ b, in order.
C10_BulkAddRolls ==
    (lastLtm.op = "add_long_term_memories"
        /\ Len(lastLtm.pre.v) <= system_prompt.max_ltm
        /\ Len(lastLtm.batch) <= system_prompt.max_ltm)
    => /\ ~aborted
       /\ Ltm.some
       /\ Ltm.v = LastN(lastLtm.pre.v \o lastLtm.batch,
                        Min(system_prompt.max_ltm, Len(lastLtm.pre.v) + Len(lastLtm.batch)))

\* max_ltm = 3, e = [1,2], b = [3,4] gave [2,3,4]
C10_Witness ==
    /\ lastLtm.op = "add_long_term_memories"
    /\ system_prompt.max_ltm = 3
    /\ lastLtm.pre = Some(<<1, 2>>)
    /\ lastLtm.batch = <<3, 4>>
    /\ Ltm = Some(<<2, 3, 4>>)


-----------------------------------------------------------------------------
(* Properties of the Session Registry and its tasks *)

\* exclusive access covering u's session: the registry held for write, or the registry
\* held shared together with the session's own lock
HoldsExclusive(t, u) ==
    \/ locks.user_map_writer = t
    \/ t \in locks.user_map_readers /\ locks.engine[u] = t

\* task t is inside its operation on u's session
InSession(t, u) ==
    \/ /\ tasks[t].kind = "prev"
       /\ tasks[t].user = u
       /\ tasks[t].pc \in {"locked", "updated", "edit"}
    \/ /\ tasks[t].kind = "clear"
       /\ tasks[t].user = u
       /\ tasks[t].pc \in {"locked", "updated1", "read1", "built1", "updated2", "read2",
                            "entry", "send"}
    \/ /\ tasks[t].kind = "turn"
       /\ tasks[t].user = u
       /\ tasks[t].pc \in {"engine", "completion"}
    \/ /\ tasks[t].kind = "shutdown"
       /\ tasks[t].pc \in {"map", "loop", "engine", "to_message", "disable"}

\* task t takes this step: its record changes (every step of a handler moves its
\* position) or, for the shutdown task inside one of its loops, its progress does
Stepped(t) ==
    /\ tasks[t].pc # "idle"
    /\ \/ tasks'[t] # tasks[t]
       \/ t = ShutdownTask /\ shutdown' # shutdown

\* C16: no two tasks are inside an operation on the same user's session at once; a
\* task inside its operation holds exclusive access covering that session from its
\* first step to its last; and every step that changes a user's session is taken by
\* a task that holds such access.
C16_SessionExclusive ==
    [][/\ \A u \in Users :
            user_map'[u] # user_map[u] =>
                \E t \in 1..ShutdownTask : Stepped(t) /\ HoldsExclusive(t, u)
       /\ \A u \in Users :
            /\ Cardinality({t \in 1..ShutdownTask : InSession(t, u)'}) <= 1
            /\ \A t \in 1..ShutdownTask : InSession(t, u)' => HoldsExclusive(t, u)']_vars

\* a prev has moved the cursor and is editing the displayed message while a clear for
\* the same user waits for the registry
C16_Witness ==
    \E t1 \in TaskIds, t2 \in TaskIds :
        /\ tasks[t1].kind = "prev" /\ tasks[t1].pc = "edit"
        /\ tasks[t2].kind = "clear" /\ tasks[t2].pc = "start"
        /\ tasks[t2].user = tasks[t1].user
        /\ user_map[tasks[t1].user].messages[1].selected = 0

\* C17: while a prev or a clear for one user is in progress (registry acquired, not yet
\* finished), a prev or a clear for a different user that is ready to start can take
\* its first step.
C17_OtherUserNotBlocked ==
    \A a \in TaskIds, b \in TaskIds :
        (/\ tasks[a].kind \in {"prev", "clear"}
         /\ tasks[a].pc \notin {"idle", "start", "done"}
         /\ tasks[b].kind \in {"prev", "clear"}
         /\ tasks[b].pc = "start"
         /\ tasks[b].user # tasks[a].user)
        => ENABLED (PrevAcquireUserMap(b) \/ ClearAcquireUserMap(b))

\* C18: no step of a clear for user u changes another user's session or nudge handle
\* or revives an aborted handle; its nudge step leaves u without an entry in the nudge
\* map and the handle it removed aborted; and when the clear completes u has a session
\* with an empty Branch Store and no entry in the nudge map.
C18_ClearFrame ==
    [][\A t \in TaskIds : (Stepped(t) /\ tasks[t].kind = "clear") =>
        LET u == tasks[t].user IN
        /\ \A v \in Users \ {u} :
              user_map'[v] = user_map[v] /\ freewill_map'[v] = freewill_map[v]
        /\ handles.aborted \subseteq handles'.aborted
        /\ tasks[t].pc = "entry" =>
              /\ freewill_map'[u] = 0
              /\ freewill_map[u] # 0 => freewill_map[u] \in handles'.aborted
        /\ tasks[t].pc = "send" =>
              /\ user_map'[u].present
              /\ user_map'[u].messages = ChatContextNew
              /\ freewill_map'[u] = 0]_vars

\* a clear has completed for a user whose session had a scheduled nudge (the only
\* handle spawned is aborted, which no turn does), beside another user's used session
C18_Witness ==
    /\ handles.spawned = 1
    /\ handles.aborted = {1}
    /\ \A t \in TaskIds : tasks[t].pc = "done"
    /\ \E u \in Users :
          /\ user_map[u] = ChatEngineNew(user_map[u].config)
          /\ freewill_map[u] = 0
          /\ \E v \in Users \ {u} : user_map[v] = ChatEngineUsed

\* C19: the prev handler's lookup of the session: the configuration is re-read from
\* the file, nothing changes it until it is cloned, a present session is not replaced
\* (the registry is unchanged but for the cursor the press moves), and an absent one
\* is inserted, empty and built from that configuration, with the other entries
\* unchanged.
C19_GetOrCreate ==
    [][/\ (\E t \in TaskIds : tasks[t].kind = "prev" /\ tasks[t].pc = "updated")
            => config'.memory = config.memory
       /\ \A t \in TaskIds : (Stepped(t) /\ tasks[t].kind = "prev") =>
            LET u == tasks[t].user IN
            /\ tasks[t].pc = "locked" => config'.memory = config.file
            /\ tasks[t].pc = "updated" =>
                 IF user_map[u].present
                 THEN \/ user_map' = user_map
                      \/ \E i \in 1..Len(user_map[u].messages) :
                            user_map' = [user_map EXCEPT ![u].messages[i] =
                                            MessagesBackward(@)]
                 ELSE user_map' = [user_map EXCEPT ![u] =
                                      [present |-> TRUE, config |-> config.memory,
                                       messages |-> <<>>]]]_vars

\* a prev has taken the entry of a session that was built before the configuration
\* changed, and has moved its cursor
C19_Witness ==
    \E t \in TaskIds :
        /\ tasks[t].kind = "prev" /\ tasks[t].pc = "edit"
        /\ user_map[tasks[t].user].messages[1].selected = 0
        /\ user_map[tasks[t].user].config # config.memory

\* C20: whenever the presence is offline, every session of the registry has been
\* drained by the shutdown task.
C20_DrainBeforeOffline ==
    platform.presence = "offline" =>
        \A u \in Users : user_map[u].present => u \in shutdown.drained

\* the presence went offline after the sessions of both users were drained
C20_Witness ==
    /\ platform.presence = "offline"
    /\ shutdown.drained = Users
    /\ \A u \in Users : user_map[u].present


\* C21: when the process has exited through shutdown, every stale control has been
\* attempted: each session of the registry was drained and each message kept from a
\* drain was handed to disable_buttons, whatever errors occurred on the way.
C21_ControlsAttemptedBeforeExit ==
    shutdown.exited =>
        /\ \A u \in Users : user_map[u].present => u \in shutdown.drained
        /\ shutdown.messages = 0


-----------------------------------------------------------------------------
(* Properties of build *)

\* the elapsed time of the last build: render time minus last message time
ElapsedOf(p) == p.now - p.last_message_time

Plural(n) == IF n = 1 THEN "" ELSE "s"
ExpectedPhrase(d) ==
    IF d < 60 THEN ToString(d) \o " second" \o Plural(d)
    ELSE IF d < 3600 THEN ToString(d \div 60) \o " minute" \o Plural(d \div 60)
    ELSE IF d < 86400 THEN ToString(d \div 3600) \o " hour" \o Plural(d \div 3600)
    ELSE ToString(d \div 86400) \o " day" \o Plural(d \div 86400)

\* C22: for a last message d >= 0 whole seconds before the render, the elapsed-time
\* phrase counts seconds below a minute, whole minutes below an hour, whole hours
\* below a day and whole days otherwise, with the unit singular exactly for 1.
C22_ElapsedPhrase ==
    (prompt.some /\ ElapsedOf(prompt.v) >= 0) =>
        prompt.v.time_since = ExpectedPhrase(ElapsedOf(prompt.v))

\* C23: a last message 45 seconds before the render is phrased "45 seconds", one of
\* 1 minute "1 minute", one of 90 minutes "90 minutes", one of 25 hours "1 day".
C23_ElapsedExamples ==
    prompt.some =>
        /\ ElapsedOf(prompt.v) = 45 => prompt.v.time_since = "45 seconds"
        /\ ElapsedOf(prompt.v) = 60 => prompt.v.time_since = "1 minute"
        /\ ElapsedOf(prompt.v) = 90 * 60 => prompt.v.time_since = "90 minutes"
        /\ ElapsedOf(prompt.v) = 25 * 3600 => prompt.v.time_since = "1 day"


\* the placeholders left in the texts of a section
LeftIn(section) ==
    {section.body[i][j] : <<i, j>> \in {<<i, j>> \in (1..Len(section.body)) \X (1..Len(Templated)) :
                                          j <= Len(section.body[i])}} \cap Placeholders

\* C24: no section of a rendered prompt still contains one of the four placeholders
\* (the names and the time strings contain none).
C24_NoPlaceholderLeft ==
    prompt.some => \A k \in 1..Len(prompt.v.inner) : LeftIn(prompt.v.inner[k]) = {}

\* the headers of a rendered prompt, in order
Headers(inner) == [k \in 1..Len(inner) |-> inner[k].header]

Populated(opt) == opt.some /\ Len(opt.v) > 0

\* the fixed order of the headers, restricted to the populated sections
ExpectedHeaders(b) ==
    <<"# Role", "## System Notes", "## People in conversation", "## Task">>
    \o (IF b.language.some THEN <<"## Language">> ELSE <<>>)
    \o <<"## About">>
    \o (IF b.tone.some THEN <<"## Tone">> ELSE <<>>)
    \o (IF b.age.some THEN <<"## Age">> ELSE <<>>)
    \o (IF Populated(b.likes) THEN <<"## Likes">> ELSE <<>>)
    \o (IF Populated(b.dislikes) THEN <<"## Dislikes">> ELSE <<>>)
    \o (IF b.history.some THEN <<"## History">> ELSE <<>>)
    \o (IF Populated(b.conversation_goals) THEN <<"## Conversation Goals">> ELSE <<>>)
    \o (IF Populated(b.conversational_examples) THEN <<"## Conversational Examples">> ELSE <<>>)
    \o (IF Populated(b.context) THEN <<"## Context">> ELSE <<>>)
    \o (IF Populated(b.long_term_memory) THEN <<"## Long Term Memory">> ELSE <<>>)
    \o (IF b.user_about.some THEN <<"## User's About">> ELSE <<>>)

\* C25: the headers of a rendered prompt are the fixed order restricted to the
\* sections that were set, and set to something other than an empty list.
C25_HeadersInOrder ==
    prompt.some => Headers(prompt.v.inner) = ExpectedHeaders(builder)


-----------------------------------------------------------------------------
(* Properties of the CompletionAgent *)

\* C26: a recall whose query text is absent or is the empty string succeeds, adds
\* nothing to the prompt's relevant memories and calls no collaborator.
C26_EmptyQueryNoCalls ==
    \A c \in Callers :
        LET r == agent.call[c] IN
        (r.op = "rag_recall" /\ r.pc = "done" /\ (~r.content.some \/ r.content.v = "")) =>
            /\ r.result = "Ok"
            /\ r.relevant_memories = r.before
            /\ r.calls = <<>>

\* how many times a collaborator call occurs in a list of calls
Count(calls, name) == Cardinality({i \in 1..Len(calls) : calls[i] = name})

\* C27: a completion turn whose recall step failed still sends the request to the
\* completion model, with the relevant memories as they were.
C27_RecallFailureDegrades ==
    \A c \in Callers :
        LET r == agent.call[c] IN
        (r.op = "completion" /\ r.recall = "Err" /\ r.pc = "done") =>
            /\ Count(r.calls, "completion") = 1
            /\ r.relevant_memories = r.before

\* C28: a store calls the completion model once; it writes to the vector store at
\* most once, and then after the summary and its embedding, in that order; when the
\* summarization fails it calls neither the embedding model nor the vector store; and
\* the vector store keeps everything it held, gaining one new memory or nothing, and
\* gains it only when a write of a store returns.
C28_StoreOrder ==
    [][/\ \A c \in Callers :
            LET r == agent'.call[c] IN
            r.op = "store" =>
                /\ Count(r.calls, "completion") = 1
                /\ Count(r.calls, "store") <= 1
                /\ Count(r.calls, "store") = 1 =>
                      r.calls = <<"completion", "embed_text", "store">>
                /\ r.response \notin {"none", "Text"} =>
                      r.calls = <<"completion">> /\ r.result = "Err"
       /\ Len(agent'.memory_storage) \in
             {Len(agent.memory_storage), Len(agent.memory_storage) + 1}
       /\ SubSeq(agent'.memory_storage, 1, Len(agent.memory_storage)) = agent.memory_storage
       /\ Len(agent'.memory_storage) > Len(agent.memory_storage) =>
             \E c \in Callers :
                /\ agent.call[c].op = "store"
                /\ agent.call[c].pc = "store"
                /\ agent'.call[c].pc = "done"]_vars

\* a summarization whose reply was not text has ended a store, after an earlier store
\* had written a memory
C28_Witness ==
    \E c \in Callers :
        /\ agent.call[c].op = "store"
        /\ agent.call[c].response = "ToolCall"
        /\ agent.call[c].result = "Err"
        /\ agent.call[c].pc = "done"
        /\ Len(agent.memory_storage) = 1

-----------------------------------------------------------------------------
(* Navigation errors *)

\* C31: a prev press whose message id is not a Slot of the store fails with the
\* not-found error, and only such a press does; it changes no Slot (neither cursor nor
\* Variants nor order) and does not end the task, so every later press sees the store
\* the failed press found.
C31_PrevNotFound ==
    [][(last'.op = "prev" /\ last'.res # "Pending") =>
        /\ last'.res = "NotFound" <=> IndexOf(messages, last'.id) = 0
        /\ last'.res = "NotFound" =>
              /\ messages' = messages
              /\ aborted' = aborted
              /\ ~aborted'
              /\ <<system_prompt', clock'>> = <<system_prompt, clock>>]_vars

\* a failed press in a store that holds a Slot whose cursor can still go back
C31_Witness ==
    /\ last.op = "prev"
    /\ last.res = "NotFound"
    /\ IndexOf(messages, last.id) = 0
    /\ \E i \in 1..Len(messages) : messages[i].backward

-----------------------------------------------------------------------------
(* Rendering works on a copy *)

\* C32: get_context, get_regen_context and freewill_context leave the session's
\* builder as they found it: every section, max_stm, max_ltm and the long-term-memory
\* list are the same after the call, and the placeholder-substituted texts exist only
\* in the rendered prompt.
C32_AssembleKeepsBuilder ==
    [][last'.op \in AssembleKinds => builder' = builder]_vars

\* a regenerate assembly whose render rewrote a placeholder of the copy
C32_Witness ==
    /\ last.op = "get_regen_context"
    /\ prompt.some
    /\ prompt.v.builder # builder
    /\ Len(last.context) > 1

-----------------------------------------------------------------------------
(* The size of the store after an assembly *)

\* the step is an assembly that evicted: it returned a drained list or shortened the store
Evicted == last'.drained.some \/ Len(messages') < Len(messages)

\* the Slot a successful proactive nudge records
NudgeAdded == IF last'.op = "freewill_context" /\ last'.res = "Ok" THEN 1 ELSE 0

\* C33 as stated: after any of the three assemble calls the store holds at most
\* floor(max_stm*4/5) Slots if eviction ran and fewer than max_stm Slots otherwise, so
\* for max_stm >= 1 it is strictly below max_stm; and the eviction never subtracts more
\* than the store holds.
C33_StoreBelowMaxStm ==
    [][last'.op \in AssembleKinds =>
        /\ Evicted => Len(messages') <= Floor80(system_prompt.max_stm)
        /\ ~Evicted => Len(messages') < system_prompt.max_stm
        /\ system_prompt.max_stm >= 1 => Len(messages') < system_prompt.max_stm
        /\ Evicted => Len(messages) >= Floor80(system_prompt.max_stm)]_vars

\* C33, amended: after get_context and get_regen_context the store holds exactly
\* floor(max_stm*4/5) Slots if eviction ran, and is otherwise unchanged and either
\* empty or shorter than max_stm; a successful freewill_context holds one Slot more,
\* the recorded nudge.  So for max_stm >= 1 the store is strictly below max_stm after
\* the first two and at most max_stm after a nudge; eviction runs only on a store of at
\* least max_stm Slots, so the subtraction never goes below zero.
C33_StoreBoundAfterAssemble ==
    [][last'.op \in AssembleKinds =>
        /\ Evicted =>
              /\ Len(messages') = Floor80(system_prompt.max_stm) + NudgeAdded
              /\ Len(messages) >= system_prompt.max_stm
              /\ Len(messages) - Floor80(system_prompt.max_stm) >= 0
        /\ ~Evicted =>
              /\ Len(messages') = Len(messages) + NudgeAdded
              /\ Len(messages) = 0 \/ Len(messages) < system_prompt.max_stm
        /\ system_prompt.max_stm >= 1 =>
              Len(messages') < system_prompt.max_stm + NudgeAdded]_vars

\* a nudge recorded after an eviction, filling the store up to max_stm again
C33_Witness ==
    /\ last.op = "freewill_context"
    /\ last.res = "Ok"
    /\ last.drained.some
    /\ system_prompt.max_stm >= 1
    /\ Len(messages) = system_prompt.max_stm

-----------------------------------------------------------------------------
(* The assembled context and the Slots evicted by the same call *)

\* C34: the sequence get_context returns holds, after the system prompt, the selected
\* Variant of every Slot the store held when the call started, in store order, the
\* Slots this call evicts included: its length is 1 + the store length before the
\* call.  The evicted Variants are its first elements after the prompt and no Slot
\* left in the store selects one of them, so the next call no longer returns them.
\* (get_regen_context returns that sequence less at most one element, freewill_context
\* that sequence and the nudge.)
C34_ContextIncludesEvicted ==
    [][last'.op \in AssembleKinds /\ last'.res = "Ok" =>
        LET c == last'.context IN
        /\ last'.op = "get_context" =>
              /\ Len(c) = 1 + Len(messages)
              /\ \A i \in 1..Len(messages) : c[i + 1] = MessagesSelected(messages[i])
              /\ last'.drained.some =>
                    \A j \in 1..Len(last'.drained.v) :
                       /\ c[j + 1] = last'.drained.v[j]
                       /\ \A i \in 1..Len(messages') :
                             MessagesSelected(messages'[i]) # last'.drained.v[j]
        /\ last'.op = "get_regen_context" =>
              Len(c) \in {Len(messages), 1 + Len(messages)}
        /\ last'.op = "freewill_context" => Len(c) = 2 + Len(messages)]_vars

\* an assembly that evicted: the returned sequence is longer than the store it left
C34_Witness ==
    /\ last.op = "get_context"
    /\ last.drained.some
    /\ Len(messages) >= 1
    /\ Len(last.context) = 1 + Len(messages) + Len(last.drained.v)

-----------------------------------------------------------------------------
(* Slot identities *)

\* C35: no two Slots of the store have the same identity; and adding a message under
\* an identity the store already holds keeps the number of Slots and the identity at
\* every position, so latest() returns the Slot it returned before unless the
\* identity was that of the last Slot.
C35_UniqueIdsStableOrder ==
    [][/\ \A i \in 1..Len(messages') : \A j \in 1..Len(messages') :
             messages'[i].id = messages'[j].id => i = j
       /\ (last'.op = "add_message" /\ IndexOf(messages, last'.id) # 0) =>
             /\ Len(messages') = Len(messages)
             /\ \A i \in 1..Len(messages) : messages'[i].id = messages[i].id
             /\ IndexOf(messages, last'.id) # Len(messages) =>
                   Latest(messages') = Latest(messages)]_vars

\* the first of two Slots was added again: the newer message stands before the older
C35_Witness ==
    /\ last.op = "add_message"
    /\ Len(messages) >= 2
    /\ IndexOf(messages, last.id) = 1
    /\ MessagesSelected(messages[1]).content > MessagesSelected(messages[2]).content

-----------------------------------------------------------------------------
(* Lock order and progress of prev, clear and shutdown *)

\* the locks a task holds
Holds(t) ==
    (IF locks.user_map_writer = t \/ t \in locks.user_map_readers THEN {"user_map"} ELSE {})
    \cup (IF locks.config = t THEN {"config"} ELSE {})
    \cup (IF locks.freewill_map = t THEN {"freewill_map"} ELSE {})
    \cup (IF locks.context = t THEN {"context"} ELSE {})
    \cup (IF \E u \in Users : locks.engine[u] = t THEN {"engine"} ELSE {})

\* the positions at which the next step of a handler asks for a lock: user_map at
\* "start"; config (write, then read) after it in prev and, twice, in clear;
\* freewill_map at clear's "entry"; context at shutdown's "map" and the engines' locks
\* in its "loop"
AcquirePcs(kind) ==
    IF kind = "prev" THEN {"start", "locked", "updated"}
    ELSE IF kind = "clear"
    THEN {"start", "locked", "updated1", "built1", "updated2", "entry"}
    ELSE IF kind = "shutdown" THEN {"start", "map", "loop"}
    ELSE {}

Waiting(t) == tasks[t].pc \in AcquirePcs(tasks[t].kind)

\* the registry write lock is the first lock of every handler and is asked for with
\* nothing held; every other lock is asked for and held under it; and no task that
\* asks for a lock still holds the config write guard
LockOrder ==
    \A t \in 1..ShutdownTask :
        /\ tasks[t].pc = "start" => Holds(t) = {}
        /\ (Waiting(t) /\ tasks[t].pc # "start") => locks.user_map_writer = t
        /\ Holds(t) # {} => locks.user_map_writer = t
        /\ Waiting(t) => locks.config # t

\* C36 as stated: prev, clear and shutdown take the registry write lock first and the
\* other locks under it, the config write guard is gone before config is read, nobody
\* waits for the registry holding another lock, and every task that waits for a lock
\* eventually has all its locks.
C36_EveryWaiterAcquires ==
    /\ []LockOrder
    /\ \A t \in 1..ShutdownTask : Waiting(t) ~> ~Waiting(t)
    /\ platform.ready ~> ~platform.ready

\* C36, amended: the same lock order, and every task that waits for a lock eventually
\* has all its locks unless the process exits first (shutdown returns and exit(0)
\* ends the handlers that are still waiting).
C36_NoDeadlock ==
    /\ []LockOrder
    /\ \A t \in 1..ShutdownTask : Waiting(t) ~> (~Waiting(t) \/ shutdown.exited)
    /\ platform.ready ~> (~platform.ready \/ shutdown.exited)

\* a clear holds the registry and the nudge map while a prev and the shutdown wait
C36_Witness ==
    \E t \in TaskIds : \E s \in TaskIds :
        /\ tasks[t].kind = "clear"
        /\ tasks[t].pc = "send"
        /\ Holds(t) = {"user_map", "freewill_map"}
        /\ tasks[s].kind = "prev"
        /\ tasks[s].pc = "start"
        /\ tasks[ShutdownTask].pc = "start"
        /\ ~shutdown.exited

====
